---- MODULE Spec2Model ----
(***************************************************************************)
(* A state-machine model of the BF-Memory allocator toolkit (the Memory::   *)
(* revision under include/memory and src/src): the Linear, Stack, Pool,     *)
(* Growing Pool and Free-List strategies.  Addresses are natural numbers;   *)
(* the null pointer is 0.  Assertions are modelled as compiled in           *)
(* (BF_MEMORY_ASSERTIONS 1): the first failing assertion aborts the         *)
(* process, which the variable `aborted` records.                           *)
(***************************************************************************)
EXTENDS Integers, Sequences, FiniteSets, TLC

VARIABLES
  kind,        \* which strategy this run exercises
  aborted,     \* "none", or the label of the assertion that aborted the process
  result,      \* the last call and what it returned to the caller
  linear,      \* Memory::LinearAllocator fields
  savePoints,  \* the live LinearAllocatorScope objects, innermost last
  linGhost,    \* history of the linear allocator's calls (not program state)
  stack,       \* Memory::StackAllocator fields
  stackLive,   \* the live stack allocations, oldest first, each with the
               \* StackAllocatorHeader stored in memory before its payload
  stackGhost,  \* facts about the last stack call (not program state)
  pool,        \* Memory::PoolAllocator fields
  poolMem,     \* PoolAllocatorBlock::next of every slot of the pool's buffer
  poolLive,    \* the blocks the caller holds (not program state)
  poolGhost,   \* history of the pool's calls (not program state)
  grow,        \* Memory::GrowingPoolAllocator fields
  growMem,     \* the next field of every block and chunk footer written
  parent,      \* the parent allocator the growing pool takes chunks from
  growLive,    \* the blocks the caller holds (not program state)
  growGhost,   \* history of the growing pool's calls (not program state)
  freelist,    \* Memory::FreeListAllocator fields
  flMem,       \* the AllocationHeader / FreeListNode stored at each block start
  flLive,      \* the blocks the caller holds, each with the AlignmentHeader
               \* byte stored before its payload
  flGhost,     \* facts about the last free-list call (not program state)
  deco,        \* the decorator's template arguments: which of the two
               \* class templates it is, and its mark and bound-check policies
  decoInner,   \* the inner strategy S the decorator wraps, with its memory
  decoBytes,   \* the byte stored at each address of S's buffer
  decoLive,    \* the allocations the callers hold (not program state)
  decoGhost,   \* history of the decorator's calls (not program state)
  decoThreads, \* the lock, and where each calling thread is in its call
  clinear,     \* Memory::ConcurrentLinearAllocator fields
  clThreads,   \* where each thread calling the concurrent allocator is
  clGhost,     \* the regions the concurrent allocator returned (not program
               \* state)
  memReqs,     \* MemoryRequirements fields
  mrGhost,     \* the Append calls made and what they returned (not program
               \* state)
  sized        \* the arguments of a call of Memory::AlignSize and its results

linVars == <<linear, savePoints, linGhost>>
stackVars == <<stack, stackLive, stackGhost>>
poolVars == <<pool, poolMem, poolLive, poolGhost>>
growVars == <<grow, growMem, parent, growLive, growGhost>>
flVars == <<freelist, flMem, flLive, flGhost>>
decoVars == <<deco, decoInner, decoBytes, decoLive, decoGhost, decoThreads>>
clVars == <<clinear, clThreads, clGhost>>
reqVars == <<memReqs, mrGhost, sized>>
vars == <<kind, aborted, result, linVars, stackVars, poolVars, growVars, flVars,
          decoVars, clVars, reqVars>>

notLin == <<stackVars, poolVars, growVars, flVars, decoVars, clVars, reqVars>>
notStack == <<linVars, poolVars, growVars, flVars, decoVars, clVars, reqVars>>
notPool == <<linVars, stackVars, growVars, flVars, decoVars, clVars, reqVars>>
notGrow == <<linVars, stackVars, poolVars, flVars, decoVars, clVars, reqVars>>
notFl == <<linVars, stackVars, poolVars, growVars, decoVars, clVars, reqVars>>
notDeco == <<linVars, stackVars, poolVars, growVars, flVars, clVars, reqVars>>
notCl == <<linVars, stackVars, poolVars, growVars, flVars, decoVars, reqVars>>
notReq == <<linVars, stackVars, poolVars, growVars, flVars, decoVars, clVars>>

----------------------------------------------------------------------------
(* Bounds of the model.                                                    *)

\* Size in bytes of the buffer handed to the linear allocator.
LinearMemorySize == 6
\* Largest size requested from the linear allocator.
LinearMaxRequest == 3

\* Size in bytes of the buffer handed to the stack allocator.
StackMemorySize == 72

\* Buffer start addresses tried (an aligned and a misaligned one).
LinearBases == {16, 17}
StackBases == {32, 35}
\* Size in bytes of the buffer handed to the pool allocator.
PoolMemorySize == 32
PoolBases == {64, 68}
\* Block sizes and alignments the pool is constructed with.
PoolBlockSizes == {8, 12}
PoolAlignments == {4, 8, 16}
\* Size in bytes and start of the buffer of the growing pool's parent.
GrowParentSize == 64
GrowParentBases == {128}
\* Arguments the growing pool is constructed with.
GrowBlockSizes == {4, 12}
GrowAlignments == {4, 16}
GrowBlocksPerChunk == {1, 2}
\* Size in bytes and start of the buffer handed to the free-list allocator.
FlMemorySize == 64
FlBases == {64}
\* Sizes and alignments requested from the free-list allocator.
FlSizes == {1, 8}
FlAlignments == {1, 4}
\* Sizes requested from the stack allocator.
StackSizes == {1, 3, 8}
\* Alignments requested: the non-zero powers of two up to 8.
Alignments == {1, 2, 4, 8}
\* Deepest nesting of LinearAllocatorScope objects.
MaxScopes == 2

nullptr == 0

\* alignof(std::max_align_t) on the LP64 targets modelled.
DefaultAlignment == 16

----------------------------------------------------------------------------
(* alignment.hpp / alignment.cpp                                           *)

IsValidAlignment(alignment) ==
  alignment \in {1, 2, 4, 8, 16, 32, 64, 128, 256}

\* Faulty variant: the low bits of size itself are cleared.
AlignSizeDown(size, alignment) == size - (size % alignment)

\* (size + mask) & ~mask with mask = alignment - 1: clearing the low bits of
\* x = size + mask is x - (x mod alignment) when alignment is a power of two.
AlignSize(size, alignment) ==
  LET required_alignment_mask == alignment - 1
      x == size + required_alignment_mask
  IN x - (x % (required_alignment_mask + 1))

\* Faulty variant: the pointer is returned as it is.
AlignPointerKeeps(ptr, alignment) == ptr

AlignPointer(ptr, alignment) ==
  LET required_alignment_mask == alignment - 1
      x == ptr + required_alignment_mask
  IN x - (x % (required_alignment_mask + 1))

IsPointerAligned(ptr, alignment) == (ptr % alignment) = 0

----------------------------------------------------------------------------
(* basic_types.hpp: AllocationResult                                       *)

AllocationResult(ptr, num_bytes) == [ptr |-> ptr, num_bytes |-> num_bytes]
Null == AllocationResult(nullptr, 0)
\* AllocationResult::operator bool
IsAllocation(r) == r.ptr # nullptr /\ r.num_bytes # 0

Call(op, size, alignment, r) ==
  [op |-> op, size |-> size, alignment |-> alignment,
   ptr |-> r.ptr, num_bytes |-> r.num_bytes]

----------------------------------------------------------------------------
(* Linear allocator                                                        *)

LinearAllocatorCtor(memory_block, memory_block_size) ==
  [m_MemoryBgn |-> memory_block,
   m_MemoryEnd |-> memory_block + memory_block_size,
   m_Current   |-> memory_block]

LinearClearKeepsCurrent(self) == self

LinearClear(self) == [self EXCEPT !.m_Current = self.m_MemoryBgn]

LinearCanServiceAllocation(self, size, alignment) ==
  AlignPointer(self.m_Current, alignment) + size <= self.m_MemoryEnd

\* Faulty variant: the cursor advances by size only, ignoring the alignment padding.
LinearAllocateNoPadding(self, size, alignment) ==
  LET aligned_ptr     == AlignPointer(self.m_Current, alignment)
      aligned_ptr_end == aligned_ptr + size
  IN IF size # 0 /\ aligned_ptr_end <= self.m_MemoryEnd
     THEN [self   |-> [self EXCEPT !.m_Current = self.m_Current + size],
           result |-> AllocationResult(aligned_ptr, size)]
     ELSE [self |-> self, result |-> Null]

\* Faulty variant: a request that does not fit still moves the cursor to the aligned
\* address.
LinearAllocateMovesOnFailure(self, size, alignment) ==
  LET aligned_ptr     == AlignPointer(self.m_Current, alignment)
      aligned_ptr_end == aligned_ptr + size
  IN IF size # 0 /\ aligned_ptr_end <= self.m_MemoryEnd
     THEN [self   |-> [self EXCEPT !.m_Current = aligned_ptr_end],
           result |-> AllocationResult(aligned_ptr, size)]
     ELSE [self |-> [self EXCEPT !.m_Current =
                       IF aligned_ptr <= self.m_MemoryEnd THEN aligned_ptr ELSE @],
           result |-> Null]

LinearAllocate(self, size, alignment) ==
  LET aligned_ptr     == AlignPointer(self.m_Current, alignment)
      aligned_ptr_end == aligned_ptr + size
  IN IF size # 0 /\ aligned_ptr_end <= self.m_MemoryEnd
     THEN [self   |-> [self EXCEPT !.m_Current = aligned_ptr_end],
           result |-> AllocationResult(aligned_ptr, size)]
     ELSE [self |-> self, result |-> Null]

\* Faulty variant: every block rewinds the cursor to its start.
LinearDeallocateAnyBlock(self, ptr, size, alignment) ==
  [self EXCEPT !.m_Current = ptr]

\* Faulty variant: any block that ends at or after the cursor rewinds it.
LinearDeallocateRewindsAlways(self, ptr, size, alignment) ==
  LET ptr_end == ptr + size
  IN IF ptr_end >= self.m_Current /\ ptr <= self.m_Current
     THEN [self EXCEPT !.m_Current = ptr]
     ELSE self

LinearDeallocate(self, ptr, size, alignment) ==
  LET ptr_end == ptr + size
  IN IF ptr_end = self.m_Current
     THEN [self EXCEPT !.m_Current = ptr]
     ELSE self

\* Faulty variant: the save point captures the start of the buffer.
SavePointSaveCapturesBegin(allocator) ==
  [m_Allocator |-> TRUE, m_RestorePoint |-> allocator.m_MemoryBgn]

SavePointSave(allocator) ==
  [m_Allocator |-> TRUE, m_RestorePoint |-> allocator.m_Current]

\* Restore(): the allocator after the call (the save point itself is
\* disarmed by the action).
SavePointRestore(savepoint, allocator) ==
  [allocator EXCEPT !.m_Current = savepoint.m_RestorePoint]

LinearSizes == 0 .. LinearMaxRequest

\* The variables of the strategies a run does not exercise keep these values.
LinearIdle ==
  /\ linear = [m_MemoryBgn |-> nullptr, m_MemoryEnd |-> nullptr, m_Current |-> nullptr]
  /\ savePoints = <<>>
  /\ linGhost = [run |-> <<>>, fromClear |-> TRUE, cleared |-> FALSE,
                 shadow |-> nullptr, same |-> TRUE, entry |-> <<>>,
                 before |-> nullptr]

StackIdle ==
  /\ stack = [m_StackPtr |-> nullptr, m_MemoryEnd |-> nullptr]
  /\ stackLive = <<>>
  /\ stackGhost = [top |-> FALSE, before |-> nullptr, expect |-> nullptr,
                   req |-> 0, depth |-> 0]

PoolIdle ==
  /\ pool = [m_MemoryBgn |-> nullptr, m_MemoryEnd |-> nullptr, m_BlockSize |-> 0,
             m_Alignment |-> 1, m_PoolHead |-> nullptr, m_NumElements |-> 0]
  /\ poolMem = <<>>
  /\ poolLive = {}
  /\ poolGhost = [streak |-> 0, dup |-> FALSE, reset |-> FALSE, freed |-> nullptr,
                 from |-> -1]

\* The history kept of a growing pool built for num_blocks_per_chunk blocks
\* a chunk, before any call:
\*   dup        a block was handed out while the caller still held it
\*   numBlocks  the constructor's num_blocks_per_chunk
\*   out        the chunks obtained from the parent and not yet returned,
\*              newest first, as the MemAllocate calls that obtained them
\*   reqs       the MemAllocate calls of the last call, if it was an Allocate
\*   hadFree    the free list was not empty when that Allocate began
\*   kept       that Allocate left the allocator and its memory as they were
\*   served     the successful Allocates since the newest chunk was obtained,
\*              that one included, or -1 when another call came in between
\*   prevServed served as it was before an Allocate that called the parent,
\*              else -1
\*   returned   the MemDeallocate calls of the last call, if it was FreeMemory
\*   outBefore  out as it was before that FreeMemory
\*   again      the number of chunks the call before returned, if the last two
\*              calls were FreeMemory, else -1
GrowHistory(num_blocks_per_chunk) ==
  [dup |-> FALSE, numBlocks |-> num_blocks_per_chunk, out |-> <<>>, reqs |-> <<>>,
   hadFree |-> FALSE, kept |-> TRUE, served |-> -1, prevServed |-> -1,
   returned |-> <<>>, outBefore |-> <<>>, again |-> -1]

\* The history after a call that is neither Allocate nor FreeMemory.
GrowHistoryOfOther(g) ==
  [g EXCEPT !.reqs = <<>>, !.hadFree = FALSE, !.kept = TRUE, !.served = -1,
            !.prevServed = -1, !.returned = <<>>, !.outBefore = <<>>, !.again = -1]

GrowIdle ==
  /\ grow = [m_BlockSize |-> 0, m_Alignment |-> 1, m_ChunkMemSize |-> 0,
             m_Chunks |-> nullptr, m_PoolHead |-> nullptr]
  /\ growMem = <<>>
  /\ parent = [m_MemoryBgn |-> nullptr, m_MemoryEnd |-> nullptr, m_Current |-> nullptr]
  /\ growLive = {}
  /\ growGhost = GrowHistory(0)

\* What a call that frees nothing does to the free list.
FlNothingDone ==
  [forward |-> FALSE, backward |-> FALSE, insert |-> FALSE, holders |-> 0,
   covered |-> FALSE, gained |-> 0]

\* No block: the value of the fields of the free-list history that
\* describe a block when there is none to describe.
FlNoBlock ==
  [ptr |-> nullptr, num_bytes |-> 0, size |-> 0, alignment |-> 1,
   node |-> nullptr, end |-> nullptr, first |-> FALSE]

\* The history kept of a free-list allocator over [bgn, end), before any
\* call:
\*   freed  the block the last call freed, if it was an accepted Deallocate:
\*          the region and the request it was allocated with, its header's
\*          address (node) and the end of its footprint (end), and whether
\*          no free node lay below it (first)
\*   re     freed as it was before an Allocate that repeats the size and
\*          alignment of the block the call before freed
\*   pair   the footprint [lo, hi) of the freed block and of the block the
\*          call before freed, if that block is its neighbour in memory
\*   fit    before the last Allocate, the first node of the free list that
\*          held the bytes the request needs, and the end of its footprint
\*   did    what the last accepted Deallocate did to the free list, read off
\*          the list before and after it (FlObserved)
FlHistory(bgn, end) ==
  [bgn |-> bgn, end |-> end, freed |-> FlNoBlock, re |-> FlNoBlock,
   pair |-> [lo |-> nullptr, hi |-> nullptr],
   fit |-> [node |-> nullptr, end |-> nullptr],
   did |-> FlNothingDone]

FlIdle ==
  /\ freelist = [m_Freelist |-> nullptr]
  /\ flMem = <<>>
  /\ flLive = {}
  /\ flGhost = FlHistory(nullptr, nullptr)

\* No inner call: the value of the fields of the decorator's history that
\* describe a call of the inner strategy when there is none to describe.
NoInnerCall ==
  [op |-> "none", ptr |-> nullptr, size |-> 0, alignment |-> 1, num_bytes |-> 0]

\* No allocation: the value of the fields that describe an allocation a
\* caller holds when there is none to describe.
NoAllocation ==
  [ptr |-> nullptr, num_bytes |-> 0, size |-> 0, alignment |-> 1,
   inner |-> NoInnerCall, header |-> {}, guards |-> {}, stray |-> FALSE,
   tptr |-> nullptr, tnum |-> 0, owner |-> 0]

\* The history kept of a decorator, before any call:
\*   twin        the inner strategy of a second decorator, built over an equal
\*               strategy and buffer with both policies disabled, that is
\*               given the same calls
\*   twinFailed  the assertion that aborted the second decorator, or "none"
\*   twinResult  what the last call returned in the second decorator
\*   call        the call of the inner strategy the last call made
\*   freed       the allocation the last call freed, if it was a Deallocate
\*   allocates   the number of Allocate calls made so far
DecoHistory(inner) ==
  [twin |-> inner, twinFailed |-> "none", twinResult |-> Null,
   call |-> NoInnerCall, freed |-> NoAllocation, allocates |-> 0]

DecoIdle ==
  /\ deco = [which |-> "none", Mark |-> FALSE, BoundCheck |-> FALSE]
  /\ decoInner = [strategy |-> "none", self |-> <<>>, mem |-> <<>>]
  /\ decoBytes = <<>>
  /\ decoLive = {}
  /\ decoGhost = DecoHistory([strategy |-> "none", self |-> <<>>, mem |-> <<>>])
  /\ decoThreads = [lock |-> 0, todo |-> <<>>, local |-> <<>>, calls |-> 0,
                    done |-> <<>>]

ClIdle ==
  /\ clinear = [m_MemoryBgn |-> nullptr, m_MemoryEnd |-> nullptr, m_Current |-> nullptr]
  /\ clThreads = <<>>
  /\ clGhost = [returned |-> {}, calls |-> 0]

ReqIdle ==
  /\ memReqs = [size |-> 0, alignment |-> 1]
  /\ mrGhost = <<>>
  /\ sized = [size |-> 0, alignment |-> 1, applied |-> FALSE, aligned |-> 0,
              again |-> 0]

IdleExcept(k) ==
  /\ IF k \in {"linear", "scope", "linlive"} THEN TRUE ELSE LinearIdle
  /\ IF k = "stack" THEN TRUE ELSE StackIdle
  /\ IF k \in {"pool", "poolindex", "poolfree"} THEN TRUE ELSE PoolIdle
  /\ IF k \in {"growing", "growfree"} THEN TRUE ELSE GrowIdle
  /\ IF k \in {"freelist", "flfill"} THEN TRUE ELSE FlIdle
  /\ IF k \in {"decorator", "decosize", "decomt"} THEN TRUE ELSE DecoIdle
  /\ IF k = "concurrent" THEN TRUE ELSE ClIdle
  /\ IF k \in {"requirements", "alignsize"} THEN TRUE ELSE ReqIdle

\* The allocator is exercised in two set-ups: "linear" keeps the history of
\* the regions returned since the last rewind; "scope" adds nested
\* LinearAllocatorScope objects (constructed and destroyed in LIFO order).
LinKinds == {"linear", "scope"}

LinInitOf(k) ==
  /\ kind = k
  /\ aborted = "none"
  /\ \E base \in LinearBases : linear = LinearAllocatorCtor(base, LinearMemorySize)
  /\ savePoints = <<>>
  /\ linGhost = [run |-> <<>>, fromClear |-> TRUE, cleared |-> FALSE,
                 shadow |-> nullptr, same |-> TRUE, entry |-> <<>>,
                 before |-> nullptr]
  /\ result = Call("Init", 0, 1, Null)
  /\ IdleExcept(k)

LinInit == LinInitOf("linear")
ScopeInit == LinInitOf("scope")

\* Ghost: what a freshly constructed allocator over the same buffer returns
\* for the requests made since the last Clear(); shadow is its m_Current.
ShadowOf(self) ==
  IF linGhost.fromClear /\ linGhost.run # <<>> THEN linGhost.shadow ELSE self.m_MemoryBgn

LinAllocateStep ==
  \E size \in LinearSizes, alignment \in Alignments :
    LET r  == LinearAllocate(linear, size, alignment)
        fr == LinearAllocate(
                [LinearAllocatorCtor(linear.m_MemoryBgn, linear.m_MemoryEnd - linear.m_MemoryBgn)
                   EXCEPT !.m_Current = ShadowOf(linear)], size, alignment)
    IN
    /\ kind \in LinKinds /\ aborted = "none"
    /\ linear' = r.self
    /\ result' = IF kind = "linear"
                 THEN Call("Allocate", size, alignment, r.result)
                 ELSE Call("Allocate", 0, 1, Null)
    /\ linGhost' = IF IsAllocation(r.result) /\ kind = "linear"
                   THEN [linGhost EXCEPT
                           !.run = Append(@, [ptr |-> r.result.ptr, num_bytes |-> r.result.num_bytes]),
                           !.shadow = fr.self.m_Current,
                           !.same = @ /\ fr.result = r.result,
                           !.before = nullptr]
                   ELSE [linGhost EXCEPT !.before = nullptr]
    /\ UNCHANGED <<kind, aborted, savePoints, notLin>>

LinDeallocateStep ==
  \E ptr \in linear.m_MemoryBgn .. linear.m_MemoryEnd,
     size \in LinearSizes, alignment \in {DefaultAlignment} :
    /\ kind \in LinKinds /\ aborted = "none"
    /\ linear' = LinearDeallocate(linear, ptr, size, alignment)
    /\ result' = IF kind = "linear"
                 THEN Call("Deallocate", size, alignment, AllocationResult(ptr, 0))
                 ELSE Call("Deallocate", 0, 1, Null)
    /\ linGhost' = [linGhost EXCEPT !.run = <<>>, !.fromClear = FALSE, !.same = TRUE,
                                    !.shadow = nullptr,
                                    !.before = IF kind = "linear" THEN linear.m_Current
                                               ELSE nullptr]
    /\ UNCHANGED <<kind, aborted, savePoints, notLin>>

LinClearStep ==
  /\ kind \in LinKinds /\ aborted = "none"
  /\ linear' = LinearClear(linear)
  /\ result' = Call("Clear", 0, 1, Null)
  /\ linGhost' = [linGhost EXCEPT !.run = <<>>, !.fromClear = TRUE, !.same = TRUE,
                                  !.shadow = nullptr, !.before = nullptr,
                                  !.cleared = @ \/ linear.m_Current # linear.m_MemoryBgn]
  /\ UNCHANGED <<kind, aborted, savePoints, notLin>>

\* LinearAllocatorScope constructor: Save().
LinSaveStep ==
  /\ kind = "scope" /\ aborted = "none"
  /\ Len(savePoints) < MaxScopes
  /\ savePoints' = Append(savePoints, SavePointSave(linear))
  /\ linGhost' = [linGhost EXCEPT !.entry = Append(@, linear.m_Current),
                                  !.before = nullptr]
  /\ result' = Call("Save", 0, 1, Null)
  /\ UNCHANGED <<kind, aborted, linear, notLin>>

\* LinearAllocatorScope destructor of the innermost scope: Restore().
LinRestoreStep ==
  /\ kind = "scope" /\ aborted = "none"
  /\ savePoints # <<>>
  /\ LET top == Len(savePoints) IN
     /\ linear' = SavePointRestore(savePoints[top], linear)
     /\ savePoints' = SubSeq(savePoints, 1, top - 1)
     /\ linGhost' = [linGhost EXCEPT !.entry = SubSeq(@, 1, top - 1),
                                     !.before = linear.m_Current]
     /\ result' = Call("Restore", 0, 1, AllocationResult(linGhost.entry[top], 0))
  /\ UNCHANGED <<kind, aborted, notLin>>

LinNext ==
  \/ LinAllocateStep
  \/ LinDeallocateStep
  \/ LinClearStep

ScopeNext ==
  \/ LinAllocateStep
  \/ LinDeallocateStep
  \/ LinClearStep
  \/ LinSaveStep
  \/ LinRestoreStep

SpecLinear == LinInit /\ [][LinNext]_vars
SpecLinearScope == ScopeInit /\ [][ScopeNext]_vars


----------------------------------------------------------------------------
(* Stack allocator                                                         *)

\* struct StackAllocatorHeader { byte* restore; MemoryIndex num_bytes; }
SizeofStackAllocatorHeader == 16
OffsetofNumBytes == 8

\* A word whose bytes were overwritten in part by another header holds a
\* value fixed by the addresses involved: it may keep its value (the bytes
\* written equal the old ones) or become some other, here large, value.
ClobberedWord == 2 ^ 20
Clobber(old) == {old, ClobberedWord}

StackAllocatorCtor(memory_block, memory_block_size) ==
  [m_StackPtr |-> memory_block, m_MemoryEnd |-> memory_block + memory_block_size]

\* Stack::WriteHeader at address dst, seen from a header stored at address
\* at: the fields of `old` whose bytes [dst, dst + 16) covers can change.
WriteHeaderOver(old, at, dst) ==
  LET hits(lo, hi) == dst < hi /\ lo < dst + SizeofStackAllocatorHeader IN
  {[restore |-> r, num_bytes |-> n] :
     r \in (IF hits(at, at + OffsetofNumBytes) THEN Clobber(old.restore) ELSE {old.restore}),
     n \in (IF hits(at + OffsetofNumBytes, at + SizeofStackAllocatorHeader)
            THEN Clobber(old.num_bytes) ELSE {old.num_bytes})}

\* The live allocations after a header is written at dst.
RECURSIVE WriteHeaderOverAll(_, _)
WriteHeaderOverAll(live, dst) ==
  IF live = <<>> THEN {<<>>}
  ELSE LET a == live[Len(live)] IN
       {Append(rest, [a EXCEPT !.header = h]) :
          rest \in WriteHeaderOverAll(SubSeq(live, 1, Len(live) - 1), dst),
          h \in WriteHeaderOver(a.header, a.ptr - SizeofStackAllocatorHeader, dst)}

\* Allocate: the allocator after the call, the header written at
\* result.ptr - sizeof(StackAllocatorHeader), and the result.
StackAllocate(self, size, alignment) ==
  LET needed_memory == size + SizeofStackAllocatorHeader
      restore_point == self.m_StackPtr
      aligned_ptr   == AlignPointer(restore_point + SizeofStackAllocatorHeader, alignment)
  IN IF aligned_ptr + needed_memory <= self.m_MemoryEnd
     THEN [self   |-> [self EXCEPT !.m_StackPtr = @ + needed_memory],
           header |-> [restore |-> restore_point, num_bytes |-> needed_memory],
           result |-> AllocationResult(aligned_ptr, size)]
     ELSE [self |-> self, header |-> [restore |-> nullptr, num_bytes |-> 0], result |-> Null]

\* Deallocate, given the header read at ptr - sizeof(StackAllocatorHeader):
\* the first assertion that fails ("none" if none does) and the allocator
\* after the call.
StackDeallocate(self, header, size, alignment) ==
  LET failed ==
        IF header.num_bytes # size THEN "Incorrect number of bytes passed in."
        ELSE IF ~(header.restore < self.m_MemoryEnd)
          THEN "Invalid pointer passed in (Restore point invalid)."
        ELSE IF ~(header.restore < self.m_StackPtr)
          THEN "Invalid pointer passed in (Stack pointer should be ahead of restore point)."
        ELSE "none"
  IN [failed |-> failed,
      self   |-> IF failed = "none" THEN [self EXCEPT !.m_StackPtr = header.restore] ELSE self]

StackInit ==
  /\ kind = "stack"
  /\ aborted = "none"
  /\ \E base \in StackBases : stack = StackAllocatorCtor(base, StackMemorySize)
  /\ stackLive = <<>>
  /\ stackGhost = [top |-> FALSE, before |-> nullptr, expect |-> nullptr,
                   req |-> 0, depth |-> 0]
  /\ result = Call("Init", 0, 1, Null)
  /\ IdleExcept("stack")

StackAllocateStep ==
  \E size \in StackSizes, alignment \in Alignments :
    LET r   == StackAllocate(stack, size, alignment)
        dst == r.result.ptr - SizeofStackAllocatorHeader
    IN
    /\ kind = "stack" /\ aborted = "none"
    /\ stack' = r.self
    /\ result' = Call("Allocate", size, alignment, r.result)
    /\ IF r.result.ptr # nullptr
       THEN \E others \in WriteHeaderOverAll(stackLive, dst) :
              stackLive' = Append(others,
                   [ptr |-> r.result.ptr, size |-> size, alignment |-> alignment,
                    before |-> stack.m_StackPtr, header |-> r.header])
       ELSE stackLive' = stackLive
    /\ stackGhost' = [top |-> FALSE, before |-> stack.m_StackPtr, expect |-> nullptr,
                      req |-> size, depth |-> Len(stackLive)]
    /\ UNCHANGED <<kind, aborted, notStack>>

\* Deallocate of a live allocation, with the size it was requested with or
\* with the size its header records.  A rewind hands the memory of the freed
\* allocation and of every later one back to the allocator, so none of them
\* is live afterwards.
StackDeallocateStep ==
  \E i \in 1 .. Len(stackLive) :
    \E size \in {stackLive[i].size, stackLive[i].size + SizeofStackAllocatorHeader} :
      LET a == stackLive[i]
          r == StackDeallocate(stack, a.header, size, a.alignment)
      IN
      /\ kind = "stack" /\ aborted = "none"
      /\ stack' = r.self
      /\ aborted' = r.failed
      /\ result' = Call("Deallocate", size, a.alignment, AllocationResult(a.ptr, 0))
      /\ stackLive' = IF r.failed = "none"
                      THEN SubSeq(stackLive, 1, i - 1)
                      ELSE stackLive
      /\ stackGhost' = [top |-> i = Len(stackLive), before |-> stack.m_StackPtr,
                        expect |-> a.before, req |-> a.size, depth |-> Len(stackLive)]
      /\ UNCHANGED <<kind, notStack>>

StackNext ==
  \/ StackAllocateStep
  \/ StackDeallocateStep

SpecStack == StackInit /\ [][StackNext]_vars

----------------------------------------------------------------------------
(* Pool allocator                                                          *)

\* struct PoolAllocatorBlock { PoolAllocatorBlock* next; }
SizeofPoolAllocatorBlock == 8

\* Faulty variant: the slots are laid out block_size apart, not aligned_block_size.
SetupPoolUnalignedStride(memory_block, memory_size, block_size, alignment) ==
  LET base_address     == AlignPointer(memory_block, alignment)
      memory_end       == memory_block + memory_size
      memory_available == memory_end - base_address
      num_elements     == memory_available \div block_size
      NodeAt(index)    == base_address + block_size * index
      last_index       == num_elements - 1
  IN [failed |-> "none",
      head |-> NodeAt(0), tail |-> NodeAt(last_index), num_elements |-> num_elements,
      next |-> [a \in {NodeAt(i) : i \in 0 .. last_index} |->
                  IF a = NodeAt(last_index) THEN nullptr ELSE a + block_size]]

\* SetupPool: the PoolAllocatorSetupResult, the next field written into each
\* slot, and the assertion that failed ("none" if none).  memory_end is never
\* below base_address for the buffers used here, so the unsigned subtraction
\* does not wrap.
SetupPool(memory_block, memory_size, block_size, alignment) ==
  LET aligned_block_size == AlignSize(block_size, alignment)
      base_address       == AlignPointer(memory_block, alignment)
      memory_end         == memory_block + memory_size
      memory_available   == memory_end - base_address
      num_elements       == memory_available \div aligned_block_size
      NodeAt(index)      == base_address + aligned_block_size * index
      last_index         == num_elements - 1
      failed == IF block_size >= SizeofPoolAllocatorBlock THEN "none"
                ELSE "Each block must be at least PoolAllocatorBlock in size."
  IN IF num_elements # 0
     THEN [failed |-> failed,
           head |-> NodeAt(0), tail |-> NodeAt(last_index), num_elements |-> num_elements,
           next |-> [a \in {NodeAt(i) : i \in 0 .. last_index} |->
                       IF a = NodeAt(last_index) THEN nullptr ELSE a + aligned_block_size]]
     ELSE [failed |-> failed,
           head |-> nullptr, tail |-> nullptr, num_elements |-> 0, next |-> <<>>]

\* Reset(): the allocator and its buffer after the call.
PoolReset(self) ==
  LET setup == SetupPool(self.m_MemoryBgn, self.m_MemoryEnd - self.m_MemoryBgn,
                         self.m_BlockSize, self.m_Alignment)
  IN [failed |-> setup.failed,
      self   |-> [self EXCEPT !.m_PoolHead = setup.head,
                              !.m_NumElements = setup.num_elements],
      mem    |-> setup.next]

PoolAllocatorCtor(memory_block, memory_size, block_size, alignment) ==
  PoolReset([m_MemoryBgn |-> memory_block, m_MemoryEnd |-> memory_block + memory_size,
             m_BlockSize |-> block_size, m_Alignment |-> alignment,
             m_PoolHead |-> nullptr, m_NumElements |-> 0])

\* Faulty variant: the offset is divided by the alignment.
PoolIndexOfByAlignment(self, ptr) ==
  [failed |-> IF ptr < self.m_MemoryBgn + self.m_BlockSize * self.m_NumElements
              THEN "none" ELSE "Pointer does not belong to this pool.",
   index  |-> (ptr - self.m_MemoryBgn) \div self.m_Alignment]

PoolIndexOf(self, ptr) ==
  [failed |-> IF ptr < self.m_MemoryBgn + self.m_BlockSize * self.m_NumElements
              THEN "none" ELSE "Pointer does not belong to this pool.",
   index  |-> (ptr - self.m_MemoryBgn) \div self.m_BlockSize]

PoolFromIndex(self, index) ==
  [failed |-> IF index < self.m_NumElements THEN "none" ELSE "Invalid index",
   ptr    |-> self.m_MemoryBgn + self.m_BlockSize * index]

\* Faulty variant: the block returned stays at the head of the free list.
PoolAllocateKeepsHead(self, mem, size, alignment) ==
  IF size <= self.m_BlockSize /\ alignment <= self.m_Alignment
  THEN [failed |-> "none", self |-> self,
        result |-> IF self.m_PoolHead # nullptr
                   THEN AllocationResult(self.m_PoolHead, self.m_BlockSize) ELSE Null]
  ELSE [failed |-> "This Allocator is made for Objects of a certain size!",
        self |-> self, result |-> Null]

PoolAllocate(self, mem, size, alignment) ==
  LET failed ==
        IF ~(size <= self.m_BlockSize)
          THEN "This Allocator is made for Objects of a certain size!"
        ELSE IF ~(alignment <= self.m_Alignment)
          THEN "This Allocator is made for Objects of a certain alignment!"
        ELSE "none"
      block == self.m_PoolHead
  IN IF failed # "none" THEN [failed |-> failed, self |-> self, result |-> Null]
     ELSE IF block # nullptr
       THEN [failed |-> failed,
             self   |-> [self EXCEPT !.m_PoolHead = mem[block]],
             result |-> AllocationResult(block, self.m_BlockSize)]
     ELSE [failed |-> failed, self |-> self, result |-> Null]

\* Faulty variant: the freed block is linked behind the head of the list.
PoolDeallocateBehindHead(self, mem, ptr, size, alignment) ==
  IF self.m_PoolHead = nullptr
  THEN [failed |-> "none", self |-> [self EXCEPT !.m_PoolHead = ptr],
        mem |-> [a \in DOMAIN mem \cup {ptr} |-> IF a = ptr THEN nullptr ELSE mem[a]]]
  ELSE [failed |-> "none", self |-> self,
        mem |-> [a \in DOMAIN mem \cup {ptr} |->
                  IF a = ptr THEN mem[self.m_PoolHead]
                  ELSE IF a = self.m_PoolHead THEN ptr ELSE mem[a]]]

PoolDeallocate(self, mem, ptr, size, alignment) ==
  LET failed ==
        IF ~(size <= self.m_BlockSize)
          THEN "That allocation did not come from this allocator (bad size)."
        ELSE IF ~(alignment <= self.m_Alignment)
          THEN "That allocation did not come from this allocator (bad alignment)."
        ELSE IF ~(self.m_MemoryBgn <= ptr /\ ptr < self.m_MemoryEnd)
          THEN "That allocation did not come from this allocator."
        ELSE IF ~IsPointerAligned(ptr, alignment)
          THEN "All memory from this allocator is aligned."
        ELSE "none"
  IN IF failed # "none" THEN [failed |-> failed, self |-> self, mem |-> mem]
     ELSE [failed |-> failed,
           self   |-> [self EXCEPT !.m_PoolHead = ptr],
           mem    |-> [a \in DOMAIN mem \cup {ptr} |->
                         IF a = ptr THEN self.m_PoolHead ELSE mem[a]]]

\* The pool is exercised in two set-ups: "pool" makes requests inside and
\* outside the pool's preconditions and frees blocks one by one;
\* "poolindex" frees them by Reset only and adds the index conversions
\* IndexOf and FromIndex; "poolfree" is "pool" with blocks freed twice.
PoolKinds == {"pool", "poolindex", "poolfree"}

PoolInitOf(k) ==
  /\ kind = k
  /\ \E base \in PoolBases, block_size \in PoolBlockSizes, alignment \in PoolAlignments :
       LET c == PoolAllocatorCtor(base, PoolMemorySize, block_size, alignment) IN
       /\ pool = c.self
       /\ poolMem = c.mem
       /\ aborted = c.failed
  /\ poolLive = {}
  /\ poolGhost = [streak |-> 0, dup |-> FALSE, reset |-> FALSE, freed |-> nullptr,
                 from |-> -1]
  /\ result = Call("Init", 0, 1, Null)
  /\ IdleExcept(k)

PoolInit == PoolInitOf("pool")
PoolIndexInit == PoolInitOf("poolindex")

\* The requests made of a pool: within its block size and alignment, and
\* one past each.
PoolRequests(block_size, alignment) ==
  {<<1, 1>>, <<block_size, alignment>>, <<block_size + 1, 1>>, <<1, 2 * alignment>>}

PoolAllocateStep ==
  \E req \in PoolRequests(pool.m_BlockSize, pool.m_Alignment) :
    LET size      == req[1]
        alignment == req[2]
        r         == PoolAllocate(pool, poolMem, size, alignment)
        got       == r.result.ptr # nullptr
    IN
    /\ kind \in PoolKinds /\ aborted = "none"
    /\ pool' = r.self
    /\ aborted' = r.failed
    /\ result' = Call("Allocate", size, alignment, r.result)
    /\ poolLive' = IF got
                   THEN poolLive \cup {[ptr |-> r.result.ptr, size |-> size,
                                        alignment |-> alignment]}
                   ELSE poolLive
    /\ poolGhost' = [poolGhost EXCEPT
                       !.streak = IF r.failed = "none" /\ got /\ @ >= 0 THEN @ + 1 ELSE @,
                       !.dup = @ \/ (got /\ \E a \in poolLive : a.ptr = r.result.ptr),
                       !.freed = IF result.op = "Deallocate" THEN result.ptr ELSE nullptr,
                       !.from = -1]
    /\ UNCHANGED <<kind, poolMem, notPool>>

\* Deallocate of a block the caller holds, with the size it was requested
\* with or the size Allocate returned.
PoolDeallocateStep ==
  \E a \in poolLive : \E size \in {a.size, pool.m_BlockSize} :
    LET r == PoolDeallocate(pool, poolMem, a.ptr, size, a.alignment) IN
    /\ kind \in PoolKinds /\ aborted = "none"
    /\ pool' = r.self
    /\ poolMem' = r.mem
    /\ aborted' = r.failed
    /\ result' = Call("Deallocate", size, a.alignment, AllocationResult(a.ptr, a.size))
    /\ poolLive' = IF r.failed = "none" THEN poolLive \ {a} ELSE poolLive
    /\ poolGhost' = [poolGhost EXCEPT !.streak = -1, !.freed = nullptr, !.from = -1]
    /\ UNCHANGED <<kind, notPool>>

PoolResetStep ==
  LET r == PoolReset(pool) IN
  /\ kind \in PoolKinds /\ aborted = "none"
  /\ pool' = r.self
  /\ poolMem' = r.mem
  /\ aborted' = r.failed
  /\ result' = Call("Reset", 0, 1, Null)
  /\ poolLive' = {}
  /\ poolGhost' = [streak |-> 0, dup |-> FALSE, reset |-> poolLive # {},
                   freed |-> nullptr, from |-> -1]
  /\ UNCHANGED <<kind, notPool>>

\* FromIndex(index): result.size holds the index passed and result.ptr
\* the pointer returned.
PoolFromIndexStep ==
  \E index \in 0 .. pool.m_NumElements :
    LET r == PoolFromIndex(pool, index) IN
    /\ kind = "poolindex" /\ aborted = "none"
    /\ aborted' = r.failed
    /\ result' = Call("FromIndex", index, 1, AllocationResult(r.ptr, 0))
    /\ poolGhost' = [poolGhost EXCEPT !.streak = -1, !.freed = nullptr, !.from = -1]
    /\ UNCHANGED <<kind, pool, poolMem, poolLive, notPool>>

\* IndexOf(ptr) of a block the caller holds or of the pointer FromIndex
\* just returned: result.size holds the index returned.
PoolIndexOfStep ==
  \E ptr \in {a.ptr : a \in poolLive}
              \cup (IF result.op = "FromIndex" THEN {result.ptr} ELSE {}) :
    LET r == PoolIndexOf(pool, ptr) IN
    /\ kind = "poolindex" /\ aborted = "none"
    /\ aborted' = r.failed
    /\ result' = Call("IndexOf", r.index, 1, AllocationResult(ptr, 0))
    /\ poolGhost' = [poolGhost EXCEPT
                       !.streak = -1, !.freed = nullptr,
                       !.from = IF result.op = "FromIndex" /\ ptr = result.ptr
                                THEN result.size ELSE -1]
    /\ UNCHANGED <<kind, pool, poolMem, poolLive, notPool>>

PoolNext ==
  \/ PoolAllocateStep
  \/ PoolDeallocateStep
  \/ PoolResetStep

PoolIndexNext ==
  \/ PoolAllocateStep
  \/ PoolResetStep
  \/ PoolFromIndexStep
  \/ PoolIndexOfStep

SpecPool == PoolInit /\ [][PoolNext]_vars
SpecPoolIndex == PoolIndexInit /\ [][PoolIndexNext]_vars

----------------------------------------------------------------------------
(* Growing pool allocator                                                  *)

\* struct ChunkFooter { ChunkFooter* next; }
SizeofChunkFooter == 8
AlignofChunkFooter == 8

\* The memory map mem after the words of writes are stored.
MemWrite(mem, writes) ==
  [a \in DOMAIN mem \cup DOMAIN writes |->
     IF a \in DOMAIN writes THEN writes[a] ELSE mem[a]]

\* The parent is reached through the allocator interface; here it is a
\* linear allocator over its own buffer.
MemAllocate(allocator, size, alignment) == LinearAllocate(allocator, size, alignment)
MemDeallocate(allocator, ptr, size, alignment) == LinearDeallocate(allocator, ptr, size, alignment)

GrowingPoolAllocatorCtor(block_size, block_alignment, num_blocks_per_chunk) ==
  LET m_BlockSize == IF block_size < SizeofPoolAllocatorBlock
                     THEN SizeofPoolAllocatorBlock ELSE block_size
      m_Alignment == IF block_alignment < AlignofChunkFooter
                     THEN AlignofChunkFooter ELSE block_alignment
  IN [failed |-> IF ~(block_size > 0) THEN "Block size must be greater than 0."
                 ELSE IF ~(num_blocks_per_chunk > 0)
                   THEN "Num blocks per chunk must be greater than 0."
                 ELSE "none",
      self |-> [m_BlockSize    |-> m_BlockSize,
                m_Alignment    |-> m_Alignment,
                m_ChunkMemSize |-> AlignSize(m_BlockSize * num_blocks_per_chunk,
                                             AlignofChunkFooter),
                m_Chunks       |-> nullptr,
                m_PoolHead     |-> nullptr]]

\* The loop of Clear() from chunk on, head being m_PoolHead so far.
RECURSIVE GrowClearFrom(_, _, _, _)
GrowClearFrom(self, mem, chunk, head) ==
  IF chunk = nullptr THEN [head |-> head, mem |-> mem]
  ELSE LET chunk_bytes == chunk - self.m_ChunkMemSize
           setup == SetupPool(chunk_bytes, self.m_ChunkMemSize,
                              self.m_BlockSize, self.m_Alignment)
           mem1  == IF setup.num_elements # 0
                    THEN MemWrite(MemWrite(mem, setup.next), setup.tail :> head)
                    ELSE mem
           head1 == IF setup.num_elements # 0 THEN setup.head ELSE head
       IN GrowClearFrom(self, mem1, mem1[chunk], head1)

GrowClear(self, mem) ==
  LET r == GrowClearFrom(self, mem, self.m_Chunks, nullptr)
  IN [self |-> [self EXCEPT !.m_PoolHead = r.head], mem |-> r.mem]

\* A call of the parent allocator: the block passed or returned, and the
\* size and alignment passed.
ParentCall(ptr, size, alignment) == [ptr |-> ptr, size |-> size, alignment |-> alignment]

\* Faulty variant: the chunks are handed back without their footer's bytes.
RECURSIVE GrowFreeFromWithoutFooter(_, _, _, _, _)
GrowFreeFromWithoutFooter(self, mem, chunk, par, calls) ==
  IF chunk = nullptr THEN [parent |-> par, calls |-> calls]
  ELSE LET chunk_bytes == chunk - self.m_ChunkMemSize
       IN GrowFreeFromWithoutFooter(self, mem, mem[chunk],
            MemDeallocate(par, chunk_bytes, self.m_ChunkMemSize, self.m_Alignment),
            Append(calls, ParentCall(chunk_bytes, self.m_ChunkMemSize, self.m_Alignment)))

\* The loop of FreeMemory() from chunk on: the parent after the chunks are
\* handed back, and the MemDeallocate calls made (calls holds those made
\* so far).
RECURSIVE GrowFreeFrom(_, _, _, _, _)
GrowFreeFrom(self, mem, chunk, par, calls) ==
  IF chunk = nullptr THEN [parent |-> par, calls |-> calls]
  ELSE LET next_chunk  == mem[chunk]
           chunk_bytes == chunk - self.m_ChunkMemSize
       IN GrowFreeFrom(self, mem, next_chunk,
            MemDeallocate(par, chunk_bytes, self.m_ChunkMemSize + SizeofChunkFooter,
                          self.m_Alignment),
            Append(calls, ParentCall(chunk_bytes, self.m_ChunkMemSize + SizeofChunkFooter,
                                     self.m_Alignment)))

\* Faulty variant: the head of the free list is left in place.
GrowFreeMemoryKeepsPoolHead(self, mem, par) ==
  LET r == GrowFreeFrom(self, mem, self.m_Chunks, par, <<>>)
  IN [self   |-> [self EXCEPT !.m_Chunks = nullptr],
      parent |-> r.parent,
      calls  |-> r.calls]

GrowFreeMemory(self, mem, par) ==
  LET r == GrowFreeFrom(self, mem, self.m_Chunks, par, <<>>)
  IN [self   |-> [self EXCEPT !.m_Chunks = nullptr, !.m_PoolHead = nullptr],
      parent |-> r.parent,
      calls  |-> r.calls]

GrowAllocate(self, mem, par, size, alignment) ==
  LET failed ==
        IF ~(size <= self.m_BlockSize)
          THEN "This Allocator is made for Objects of size %zu (not %zu)!"
        ELSE IF ~(alignment <= self.m_Alignment)
          THEN "This Allocator is made for Objects of alignment %zu (not %zu)!"
        ELSE "none"
      block == self.m_PoolHead
      new_chunk_memory == MemAllocate(par, self.m_ChunkMemSize + SizeofChunkFooter,
                                      self.m_Alignment)
      chunk_bytes == new_chunk_memory.result.ptr
      new_chunk   == chunk_bytes + self.m_ChunkMemSize
      setup == SetupPool(chunk_bytes, self.m_ChunkMemSize, self.m_BlockSize, self.m_Alignment)
      mem1  == MemWrite(MemWrite(mem, new_chunk :> self.m_Chunks), setup.next)
      \* the MemAllocate call made when the free list is empty
      requests == <<ParentCall(chunk_bytes, self.m_ChunkMemSize + SizeofChunkFooter,
                               self.m_Alignment)>>
  IN IF failed # "none"
       THEN [failed |-> failed, self |-> self, mem |-> mem, parent |-> par, result |-> Null,
             requests |-> <<>>]
     ELSE IF block # nullptr
       THEN [failed |-> failed, self |-> [self EXCEPT !.m_PoolHead = mem[block]],
             mem |-> mem, parent |-> par,
             result |-> AllocationResult(block, self.m_BlockSize),
             requests |-> <<>>]
     ELSE IF IsAllocation(new_chunk_memory.result)
       THEN IF setup.head # nullptr
            THEN [failed |-> setup.failed,
                  self   |-> [self EXCEPT !.m_Chunks = new_chunk,
                                          !.m_PoolHead = mem1[setup.head]],
                  mem    |-> mem1, parent |-> new_chunk_memory.self,
                  result |-> AllocationResult(setup.head, self.m_BlockSize),
                  requests |-> requests]
            ELSE [failed |-> setup.failed,
                  self   |-> [self EXCEPT !.m_Chunks = new_chunk],
                  mem    |-> mem1, parent |-> new_chunk_memory.self,
                  result |-> Null,
                  requests |-> requests]
     ELSE [failed |-> failed, self |-> self, mem |-> mem,
           parent |-> new_chunk_memory.self, result |-> Null,
           requests |-> requests]

GrowDeallocate(self, mem, ptr, size, alignment) ==
  LET failed ==
        IF ~(size <= self.m_BlockSize)
          THEN "That allocation did not come from this allocator (bad size)."
        ELSE IF ~(alignment <= self.m_Alignment)
          THEN "That allocation did not come from this allocator (bad alignment)."
        ELSE "none"
  IN IF failed # "none" THEN [failed |-> failed, self |-> self, mem |-> mem]
     ELSE [failed |-> failed,
           self   |-> [self EXCEPT !.m_PoolHead = ptr],
           mem    |-> MemWrite(mem, ptr :> self.m_PoolHead)]

\* The growing pool is exercised in two set-ups: "growing", and "growfree"
\* in which blocks are also freed twice.
GrowKinds == {"growing", "growfree"}

GrowInitOf(k) ==
  /\ kind = k
  /\ \E block_size \in GrowBlockSizes, block_alignment \in GrowAlignments,
        num_blocks_per_chunk \in GrowBlocksPerChunk :
       LET c == GrowingPoolAllocatorCtor(block_size, block_alignment, num_blocks_per_chunk) IN
       /\ grow = c.self
       /\ aborted = c.failed
       /\ growGhost = GrowHistory(num_blocks_per_chunk)
  /\ growMem = <<>>
  /\ \E base \in GrowParentBases : parent = LinearAllocatorCtor(base, GrowParentSize)
  /\ growLive = {}
  /\ result = Call("Init", 0, 1, Null)
  /\ IdleExcept(k)

GrowInit == GrowInitOf("growing")

GrowAllocateStep ==
  \E req \in PoolRequests(grow.m_BlockSize, grow.m_Alignment) :
    LET size      == req[1]
        alignment == req[2]
        r         == GrowAllocate(grow, growMem, parent, size, alignment)
        got       == r.result.ptr # nullptr
        called    == r.requests # <<>>
        obtained  == SelectSeq(r.requests, LAMBDA c : c.ptr # nullptr)
    IN
    /\ kind \in GrowKinds /\ aborted = "none"
    /\ grow' = r.self
    /\ growMem' = r.mem
    /\ parent' = r.parent
    /\ aborted' = r.failed
    /\ result' = Call("Allocate", size, alignment, r.result)
    /\ growLive' = IF got
                   THEN growLive \cup {[ptr |-> r.result.ptr, size |-> size,
                                        alignment |-> alignment]}
                   ELSE growLive
    /\ growGhost' = [growGhost EXCEPT
                       !.dup = @ \/ (got /\ \E a \in growLive : a.ptr = r.result.ptr),
                       !.out = obtained \o @,
                       !.reqs = r.requests,
                       !.hadFree = grow.m_PoolHead # nullptr,
                       !.kept = r.self = grow /\ r.mem = growMem,
                       !.served = IF r.failed # "none" THEN -1
                                  ELSE IF obtained # <<>> THEN (IF got THEN 1 ELSE 0)
                                  ELSE IF called THEN -1
                                  ELSE IF got /\ @ >= 0 THEN @ + 1 ELSE @,
                       !.prevServed = IF called THEN growGhost.served ELSE -1,
                       !.returned = <<>>, !.outBefore = <<>>, !.again = -1]
    /\ UNCHANGED <<kind, notGrow>>

GrowDeallocateStep ==
  \E a \in growLive : \E size \in {a.size, grow.m_BlockSize} :
    LET r == GrowDeallocate(grow, growMem, a.ptr, size, a.alignment) IN
    /\ kind \in GrowKinds /\ aborted = "none"
    /\ grow' = r.self
    /\ growMem' = r.mem
    /\ aborted' = r.failed
    /\ result' = Call("Deallocate", size, a.alignment, AllocationResult(a.ptr, a.size))
    /\ growLive' = IF r.failed = "none" THEN growLive \ {a} ELSE growLive
    /\ growGhost' = GrowHistoryOfOther(growGhost)
    /\ UNCHANGED <<kind, parent, notGrow>>

GrowClearStep ==
  LET r == GrowClear(grow, growMem) IN
  /\ kind \in GrowKinds /\ aborted = "none"
  /\ grow' = r.self
  /\ growMem' = r.mem
  /\ result' = Call("Clear", 0, 1, Null)
  /\ growLive' = {}
  /\ growGhost' = [GrowHistoryOfOther(growGhost) EXCEPT !.dup = FALSE]
  /\ UNCHANGED <<kind, aborted, parent, notGrow>>

\* FreeMemory(): the chunks go back to the parent, and with them every word
\* the pool had written.
GrowFreeMemoryStep ==
  LET r == GrowFreeMemory(grow, growMem, parent) IN
  /\ kind \in GrowKinds /\ aborted = "none"
  /\ grow' = r.self
  /\ growMem' = <<>>
  /\ parent' = r.parent
  /\ result' = Call("FreeMemory", 0, 1, Null)
  /\ growLive' = {}
  /\ growGhost' = [GrowHistoryOfOther(growGhost) EXCEPT
                     !.dup = FALSE,
                     !.out = <<>>,
                     !.returned = r.calls,
                     !.outBefore = growGhost.out,
                     !.again = IF result.op = "FreeMemory"
                               THEN Len(growGhost.returned) ELSE -1]
  /\ UNCHANGED <<kind, aborted, notGrow>>

GrowNext ==
  \/ GrowAllocateStep
  \/ GrowDeallocateStep
  \/ GrowClearStep
  \/ GrowFreeMemoryStep

SpecGrowing == GrowInit /\ [][GrowNext]_vars

----------------------------------------------------------------------------
(* Free-list allocator                                                     *)

\* using AlignmentHeader = std::uint8_t
SizeofAlignmentHeader == 1
MaxAlignment == 255
\* struct AllocationHeader { MemoryIndex size; }
SizeofAllocationHeader == 8
\* struct FreeListNode : AllocationHeader { FreeListNode* next; }
SizeofFreeListNode == 16

\* Reached when an address is computed from a header size that another
\* block's write replaced by a value beyond the buffer: the code then reads
\* and writes memory it does not own.
CorruptedHeader == "undefined behaviour: the block's header was overwritten"

AlignedAllocationSize(size, alignment) ==
  IF size # 0 THEN SizeofAlignmentHeader + size + (alignment - 1) ELSE 0

\* FreeListNode::end()
NodeEnd(mem, node) == node + SizeofAllocationHeader + mem[node].size

\* Constructor: one free node spanning the buffer.
FreeListAllocatorCtor(memory_block, memory_block_size) ==
  [self |-> [m_Freelist |-> memory_block],
   mem  |-> memory_block :> [size |-> memory_block_size - SizeofAllocationHeader,
                             next |-> nullptr]]

\* Faulty variant: a node of exactly size bytes is passed over.
RECURSIVE FirstFitStrict(_, _, _, _)
FirstFitStrict(mem, prev_node, curr_node, size) ==
  IF curr_node = nullptr THEN [prev_node |-> prev_node, curr_node |-> nullptr]
  ELSE IF mem[curr_node].size <= size
    THEN FirstFitStrict(mem, curr_node, mem[curr_node].next, size)
  ELSE [prev_node |-> prev_node, curr_node |-> curr_node]

\* The loop of AllocateInternal: the first node of at least size bytes and
\* the node before it.
RECURSIVE FirstFit(_, _, _, _)
FirstFit(mem, prev_node, curr_node, size) ==
  IF curr_node = nullptr THEN [prev_node |-> prev_node, curr_node |-> nullptr]
  ELSE IF mem[curr_node].size < size
    THEN FirstFit(mem, curr_node, mem[curr_node].next, size)
  ELSE [prev_node |-> prev_node, curr_node |-> curr_node]

FlAllocateInternal(self, mem, size) ==
  LET found     == FirstFit(mem, nullptr, self.m_Freelist, size)
      prev_node == found.prev_node
      curr_node == found.curr_node
  IN IF curr_node = nullptr THEN [self |-> self, mem |-> mem, result |-> Null]
     ELSE
       LET block_size        == mem[curr_node].size
           space_after_alloc == block_size - size
           split             == space_after_alloc > SizeofFreeListNode
           offset_from_block == SizeofAllocationHeader + size
           new_node          == curr_node + offset_from_block
           block_next        == IF split THEN new_node ELSE mem[curr_node].next
           mem1 == IF split
                   THEN MemWrite(mem,
                          (new_node :> [size |-> block_size - offset_from_block
                                                   - SizeofAllocationHeader,
                                        next |-> mem[curr_node].next])
                          @@ (curr_node :> [mem[curr_node] EXCEPT !.size = size]))
                   ELSE mem
           mem2 == IF prev_node # nullptr
                   THEN [mem1 EXCEPT ![prev_node].next = block_next]
                   ELSE mem1
       IN [self   |-> IF prev_node # nullptr THEN self
                      ELSE [self EXCEPT !.m_Freelist = block_next],
           mem    |-> mem2,
           result |-> AllocationResult(curr_node + SizeofAllocationHeader,
                                       mem2[curr_node].size)]

\* Allocate: the allocator and memory after the call, the result, and the
\* AlignmentHeader byte stored at result.ptr - 1.
FlAllocate(self, mem, size, alignment) ==
  LET failed == IF alignment <= MaxAlignment THEN "none" ELSE "Alignment too large."
      allocation_size == AlignedAllocationSize(size, alignment)
      r           == FlAllocateInternal(self, mem, allocation_size)
      allocation  == r.result
      header_end  == allocation.ptr + SizeofAlignmentHeader
      data_start  == AlignPointer(header_end, alignment)
      data_offset == (data_start - allocation.ptr) % (MaxAlignment + 1)
  IN IF failed # "none"
       THEN [failed |-> failed, self |-> self, mem |-> mem, result |-> Null, offset |-> 0]
     ELSE IF IsAllocation(allocation)
       THEN [failed |-> failed, self |-> r.self, mem |-> r.mem,
             result |-> AllocationResult(data_start, allocation.num_bytes - data_offset),
             offset |-> data_offset]
     ELSE [failed |-> failed, self |-> r.self, mem |-> r.mem, result |-> Null, offset |-> 0]

\* The loop of DeallocateInternal: where the walk over the free list stops.
RECURSIVE FlScan(_, _, _, _, _)
FlScan(mem, previous, current, node_begin, node_end) ==
  IF current = nullptr THEN [previous |-> previous, current |-> nullptr]
  ELSE IF current >= node_end
          \/ (previous # nullptr /\ NodeEnd(mem, previous) = node_begin)
    THEN [previous |-> previous, current |-> current]
  ELSE FlScan(mem, current, mem[current].next, node_begin, node_end)

\* Faulty variant: the link of the inserted node is not written.
StoreNextKeepsLink(mem, node, next) == {mem}

\* Storing the 8 bytes of node->next at node + 8: a block shorter than a
\* FreeListNode ends before node + 16, and the bytes past its end are the
\* low bytes of the size of the header that follows.  They become the high
\* bytes of the pointer stored: zero for a null pointer, zero or a value
\* beyond the buffer otherwise.
StoreNext(mem, node, next) ==
  LET hit == {a \in DOMAIN mem : node + SizeofAllocationHeader <= a
                                 /\ a < node + SizeofFreeListNode}
  IN {[a \in DOMAIN mem |->
         IF a = node THEN [mem[a] EXCEPT !.next = next]
         ELSE IF a \in hit THEN [mem[a] EXCEPT !.size = garbage]
         ELSE mem[a]] :
        garbage \in (IF hit = {} \/ next = nullptr THEN {0} ELSE {0, ClobberedWord})}

\* The memory map without the header at address a (its bytes became part
\* of another block).
Absorb(mem, a) == [b \in DOMAIN mem \ {a} |-> mem[b]]

\* DeallocateInternal: the assertion that failed ("none" if none) and the
\* outcomes the call can have.
FlDeallocateInternal(self, mem, ptr, size) ==
  LET node       == ptr - SizeofAllocationHeader
      node_begin == node
      node_end   == NodeEnd(mem, node)
      stop       == FlScan(mem, nullptr, self.m_Freelist, node_begin, node_end)
      previous   == stop.previous
      current    == stop.current
  IN IF ~(size <= mem[node].size)
       THEN [failed |-> "Invalid number of bytes passed in.,",
             outcomes |-> {[self |-> self, mem |-> mem]}]
     ELSE IF mem[node].size = ClobberedWord
       THEN [failed |-> CorruptedHeader, outcomes |-> {[self |-> self, mem |-> mem]}]
     ELSE IF current # nullptr /\ current = node_end
       THEN \* Merge Node => Current
            LET mem1 == IF previous # nullptr
                        THEN [mem EXCEPT ![previous].next = node] ELSE mem
                merged == [size |-> mem[node].size + (mem[current].size + SizeofAllocationHeader),
                           next |-> mem[current].next]
            IN [failed |-> "none",
                outcomes |-> {[self |-> IF previous # nullptr THEN self
                                        ELSE [self EXCEPT !.m_Freelist = node],
                               mem  |-> Absorb([mem1 EXCEPT ![node] = merged], current)]}]
     ELSE IF previous # nullptr
       THEN IF NodeEnd(mem, previous) = node_begin
            THEN \* Merge Prev => Node
                 [failed |-> "none",
                  outcomes |-> {[self |-> self,
                                 mem  |-> Absorb([mem EXCEPT ![previous].size =
                                                    @ + (mem[node].size + SizeofAllocationHeader)],
                                                 node)]}]
            ELSE \* Add To Freelist
                 [failed |-> "none",
                  outcomes |-> {[self |-> self, mem |-> [m EXCEPT ![previous].next = node]] :
                                  m \in StoreNext(mem, node, mem[previous].next)}]
     ELSE \* Add To Freelist
          [failed |-> "none",
           outcomes |-> {[self |-> [self EXCEPT !.m_Freelist = node], mem |-> m] :
                           m \in StoreNext(mem, node, self.m_Freelist)}]

\* Deallocate, offset being the AlignmentHeader byte read at ptr - 1.
FlDeallocate(self, mem, ptr, offset, size, alignment) ==
  LET allocation_size  == AlignedAllocationSize(size, alignment)
      allocation_start == ptr - offset
  IN FlDeallocateInternal(self, mem, allocation_start, allocation_size)

\* The allocator is exercised in two set-ups: "freelist" allocates blocks
\* of one byte or more and frees them; "flfill" only allocates, and also
\* asks for blocks of no bytes.
FlKinds == {"freelist", "flfill"}

\* The requests (size, alignment) made in set-up k.
FlRequests(k) ==
  (FlSizes \X FlAlignments) \cup (IF k = "flfill" THEN {<<0, 1>>} ELSE {})

FlInitOf(k) ==
  /\ kind = k
  /\ aborted = "none"
  /\ \E base \in FlBases :
       LET c == FreeListAllocatorCtor(base, FlMemorySize) IN
       /\ freelist = c.self
       /\ flMem = c.mem
       /\ flGhost = FlHistory(base, base + FlMemorySize)
  /\ flLive = {}
  /\ result = Call("Init", 0, 1, Null)
  /\ IdleExcept(k)

FlInit == FlInitOf("freelist")
FlFillInit == FlInitOf("flfill")

\* The nodes of the free list from node on, in list order.
RECURSIVE FlFreeNodes(_, _)
FlFreeNodes(mem, node) ==
  IF node = nullptr THEN <<>> ELSE <<node>> \o FlFreeNodes(mem, mem[node].next)

FlAllocateStep ==
  \E req \in FlRequests(kind) :
    LET size == req[1]
        alignment == req[2]
        r == FlAllocate(freelist, flMem, size, alignment)
        fits == SelectSeq(FlFreeNodes(flMem, freelist.m_Freelist),
                          LAMBDA n : flMem[n].size >= AlignedAllocationSize(size, alignment))
    IN
    /\ kind \in FlKinds /\ aborted = "none"
    /\ freelist' = r.self
    /\ flMem' = r.mem
    /\ aborted' = r.failed
    /\ result' = Call("Allocate", size, alignment, r.result)
    /\ flLive' = IF r.result.ptr # nullptr
                 THEN flLive \cup {[ptr |-> r.result.ptr, size |-> size,
                                    alignment |-> alignment,
                                    num_bytes |-> r.result.num_bytes,
                                    offset |-> r.offset]}
                 ELSE flLive
    /\ flGhost' = [flGhost EXCEPT
                     !.freed = FlNoBlock,
                     !.re = IF flGhost.freed.ptr # nullptr /\ flGhost.freed.size = size
                               /\ flGhost.freed.alignment = alignment
                            THEN flGhost.freed ELSE FlNoBlock,
                     !.pair = [lo |-> nullptr, hi |-> nullptr],
                     !.fit = IF fits = <<>> THEN [node |-> nullptr, end |-> nullptr]
                             ELSE [node |-> fits[1], end |-> NodeEnd(flMem, fits[1])],
                     !.did = FlNothingDone]
    /\ UNCHANGED <<kind, notFl>>

\* The bytes of the footprints (header and recorded size) of nodes.
RECURSIVE FlFootprints(_, _)
FlFootprints(mem, nodes) ==
  IF nodes = <<>> THEN 0
  ELSE SizeofAllocationHeader + mem[Head(nodes)].size + FlFootprints(mem, Tail(nodes))

\* What a Deallocate of the block with header node and footprint
\* [node, node_end) did, read off the free list before the call (head0 in
\* mem0) and after it (head1 in mem1):
\*   forward   the node that began at node_end left the list and the freed
\*             block is on it with that node's footprint added to its size
\*   backward  the freed block is not on the list and the node that ended
\*             at node grew by the freed block's footprint
\*   insert    the list is the old one and the freed block, all sizes kept
\*   holders   the number of nodes of the list that hold bytes of the block
\*   covered   one node of the list holds all of them
\*   gained    the bytes by which the footprints of the list grew
FlObserved(mem0, head0, mem1, head1, node, node_end) ==
  LET nodes0 == FlFreeNodes(mem0, head0)
      nodes1 == FlFreeNodes(mem1, head1)
      set0   == {nodes0[i] : i \in DOMAIN nodes0}
      set1   == {nodes1[i] : i \in DOMAIN nodes1}
  IN [forward  |-> /\ node_end \in set0 /\ node_end \notin set1 /\ node \in set1
                   /\ set1 = (set0 \ {node_end}) \cup {node}
                   /\ mem1[node].size = mem0[node].size + SizeofAllocationHeader
                                          + mem0[node_end].size
                   /\ \A n \in set0 \ {node_end} : mem1[n].size = mem0[n].size,
      backward |-> /\ node \notin set1 /\ set1 = set0
                   /\ \E p \in set0 :
                        /\ NodeEnd(mem0, p) = node
                        /\ mem1[p].size = mem0[p].size + SizeofAllocationHeader
                                             + mem0[node].size
                        /\ \A n \in set0 \ {p} : mem1[n].size = mem0[n].size,
      insert   |-> /\ node \notin set0 /\ set1 = set0 \cup {node}
                   /\ mem1[node].size = mem0[node].size
                   /\ \A n \in set0 : mem1[n].size = mem0[n].size,
      holders  |-> Cardinality({n \in set1 : n < node_end /\ node < NodeEnd(mem1, n)}),
      covered  |-> \E n \in set1 : n <= node /\ node_end <= NodeEnd(mem1, n),
      gained   |-> FlFootprints(mem1, nodes1) - FlFootprints(mem0, nodes0)]

\* Deallocate of a block the caller holds, with the size it was requested
\* with or the size Allocate returned.
FlDeallocateStep ==
  \E a \in flLive : \E size \in {a.size, a.num_bytes} :
    LET r == FlDeallocate(freelist, flMem, a.ptr, a.offset, size, a.alignment)
        node == a.ptr - a.offset - SizeofAllocationHeader
        node_end == NodeEnd(flMem, node)
        before == flGhost.freed
    IN
    /\ kind = "freelist" /\ aborted = "none"
    /\ \E o \in r.outcomes :
         /\ freelist' = o.self
         /\ flMem' = o.mem
    /\ aborted' = r.failed
    /\ result' = Call("Deallocate", size, a.alignment, AllocationResult(a.ptr, a.size))
    /\ flLive' = IF r.failed = "none" THEN flLive \ {a} ELSE flLive
    /\ flGhost' = [flGhost EXCEPT
                     !.freed = IF r.failed # "none" THEN FlNoBlock
                               ELSE [ptr |-> a.ptr, num_bytes |-> a.num_bytes,
                                     size |-> a.size, alignment |-> a.alignment,
                                     node |-> node, end |-> node_end,
                                     first |-> freelist.m_Freelist = nullptr
                                               \/ freelist.m_Freelist > node],
                     !.re = FlNoBlock,
                     !.pair = IF r.failed = "none" /\ before.ptr # nullptr
                                 /\ (before.end = node \/ node_end = before.node)
                              THEN [lo |-> IF before.node < node THEN before.node ELSE node,
                                    hi |-> IF before.end > node_end THEN before.end
                                           ELSE node_end]
                              ELSE [lo |-> nullptr, hi |-> nullptr],
                     !.fit = [node |-> nullptr, end |-> nullptr],
                     !.did = IF r.failed # "none" THEN FlNothingDone
                             ELSE FlObserved(flMem, freelist.m_Freelist,
                                             flMem', freelist'.m_Freelist,
                                             node, node_end)]
    /\ UNCHANGED <<kind, notFl>>

FlNext ==
  \/ FlAllocateStep
  \/ FlDeallocateStep

FlFillNext == FlAllocateStep

SpecFreeList == FlInit /\ [][FlNext]_vars
SpecFreeListFill == FlFillInit /\ [][FlFillNext]_vars

----------------------------------------------------------------------------
(* The allocator decorator: Allocator<BaseAllocator, MarkPolicy,           *)
(* BoundCheck, Tracking, LockPolicy> (basic_types.hpp) and                 *)
(* Memory::MemoryManager (memory_manager.hpp)                              *)

\* sizeof(MemoryIndex) and alignof(MemoryIndex) on the LP64 targets modelled.
SizeofMemoryIndex == 8
AlignofMemoryIndex == 8

GuardBytePattern == 171      \* 0xAB
AllocatedBytePattern == 205  \* 0xCD
FreeBytePattern == 221       \* 0xDD

\* Size in bytes and start of the buffer handed to the inner strategy.
DecoMemorySize == 64
DecoBases == {64}
\* Block size and alignment of the pool, when the inner strategy is a pool.
DecoPoolBlockSizes == {32}
DecoPoolAlignments == {8}
\* Sizes and alignments requested from the decorator.
DecoSizes == {1, 8}
DecoAlignments == {1, 16}
\* What a buffer holds before anything is written to it, and the byte a
\* caller's stray write stores.
FreshByte == 0
StrayByte == 255
\* Most Allocate calls made in one run.
MaxDecoAllocates == 2

\* The inner strategy S: a linear allocator or a pool, over its own buffer.
InnerAllocate(inner, size, alignment) ==
  IF inner.strategy = "linear"
  THEN LET r == LinearAllocate(inner.self, size, alignment)
       IN [failed |-> "none", inner |-> [inner EXCEPT !.self = r.self],
           result |-> r.result]
  ELSE LET r == PoolAllocate(inner.self, inner.mem, size, alignment)
       IN [failed |-> r.failed, inner |-> [inner EXCEPT !.self = r.self],
           result |-> r.result]

InnerDeallocate(inner, ptr, size, alignment) ==
  IF inner.strategy = "linear"
  THEN [failed |-> "none",
        inner  |-> [inner EXCEPT !.self = LinearDeallocate(@, ptr, size, alignment)]]
  ELSE LET r == PoolDeallocate(inner.self, inner.mem, ptr, size, alignment)
       IN [failed |-> r.failed,
           inner  |-> [inner EXCEPT !.self = r.self, !.mem = r.mem]]

\* The bytes [at, at + num_bytes) all holding value.
Bytes(at, num_bytes, value) == [a \in at .. (at + num_bytes - 1) |-> value]

\* *reinterpret_cast<MemoryIndex*>(at) = value: the eight bytes stored, least
\* significant first.  The values stored are sizes within the buffer, below
\* 65536, so the bytes above the second are zero.
StoreIndex(at, value) ==
  [a \in at .. (at + SizeofMemoryIndex - 1) |->
     IF a = at THEN value % 256
     ELSE IF a = at + 1 THEN (value \div 256) % 256
     ELSE 0]

\* *reinterpret_cast<const MemoryIndex*>(at), for a header whose bytes above
\* the second are zero.
LoadIndex(bytes, at) == bytes[at] + 256 * bytes[at + 1]

GuardBytes(cfg, bytes, at, num_bytes) ==
  IF cfg.BoundCheck THEN MemWrite(bytes, Bytes(at, num_bytes, GuardBytePattern))
  ELSE bytes

\* CheckGuardBytes: TRUE when no assertion of the loop fails.
CheckGuardBytes(cfg, bytes, at, num_bytes) ==
  cfg.BoundCheck =>
    \A byte_index \in 0 .. (num_bytes - 1) : bytes[at + byte_index] = GuardBytePattern

MarkAllocatedBytes(cfg, bytes, at, num_bytes) ==
  IF cfg.Mark THEN MemWrite(bytes, Bytes(at, num_bytes, AllocatedBytePattern))
  ELSE bytes

MarkFreedBytes(cfg, bytes, at, num_bytes) ==
  IF cfg.Mark THEN MemWrite(bytes, Bytes(at, num_bytes, FreeBytePattern))
  ELSE bytes

\* The alignment after the adjustment both calls begin with.
DecoAlignment(cfg, alignment) ==
  IF cfg.BoundCheck /\ alignment < AlignofMemoryIndex
  THEN AlignofMemoryIndex ELSE alignment

\* guard_size, from the adjusted alignment.
DecoGuardSize(cfg, alignment) == IF cfg.BoundCheck THEN alignment ELSE 0

\* total_size
DecoTotalSize(guard_size, size) == guard_size + guard_size + size + guard_size

\* Faulty variant: the block is taken to start one guard zone before ptr.
DecoBlockOfOneGuard(ptr, guard_size) == ptr - guard_size

\* Deallocate's bytes: the start of the block that holds the region at ptr.
DecoBlockOf(ptr, guard_size) == ptr - guard_size - guard_size

\* Faulty variant: the back guard zone is not verified.
DecoVerifyFrontOnly(cfg, bytes, ptr, guard_size) ==
  LET bytes_bgn         == DecoBlockOf(ptr, guard_size)
      guard_bytes_front == bytes_bgn + guard_size
  IN CheckGuardBytes(cfg, bytes, guard_bytes_front, guard_size)

\* The bound check of Deallocate: TRUE when no assertion fails.
DecoVerify(cfg, bytes, ptr, guard_size) ==
  LET bytes_bgn         == DecoBlockOf(ptr, guard_size)
      size_header       == bytes_bgn
      guard_bytes_front == size_header + guard_size
      mark_bytes        == guard_bytes_front + guard_size
      user_memory_size  == LoadIndex(bytes, size_header)
      guard_bytes_back  == mark_bytes + user_memory_size
  IN cfg.BoundCheck =>
       /\ CheckGuardBytes(cfg, bytes, guard_bytes_front, guard_size)
       /\ CheckGuardBytes(cfg, bytes, guard_bytes_back, guard_size)

\* What Allocate does with the block the inner strategy returned: the bytes
\* after the header, the guard zones and the marks are written, the result
\* for the caller, and the addresses written as header and as guard zones.
DecoFill(cfg, bytes, allocation, size, guard_size, total_size) ==
  LET extra_bytes       == allocation.num_bytes - total_size
      bytes_bgn         == allocation.ptr
      user_memory_size  == size + extra_bytes
      size_header       == bytes_bgn
      guard_bytes_front == size_header + guard_size
      mark_bytes        == guard_bytes_front + guard_size
      guard_bytes_back  == mark_bytes + user_memory_size
      b1 == IF cfg.BoundCheck
            THEN MemWrite(bytes, StoreIndex(size_header, user_memory_size))
            ELSE bytes
      b2 == GuardBytes(cfg, b1, guard_bytes_front, guard_size)
      b3 == MarkAllocatedBytes(cfg, b2, mark_bytes, user_memory_size)
      b4 == GuardBytes(cfg, b3, guard_bytes_back, guard_size)
  IN [bytes  |-> b4,
      result |-> AllocationResult(mark_bytes, user_memory_size),
      header |-> IF cfg.BoundCheck
                 THEN size_header .. (size_header + SizeofMemoryIndex - 1) ELSE {},
      guards |-> IF cfg.BoundCheck
                 THEN (guard_bytes_front .. (guard_bytes_front + guard_size - 1))
                      \cup (guard_bytes_back .. (guard_bytes_back + guard_size - 1))
                 ELSE {}]

\* Allocate with a lock policy and a tracking policy that do nothing: the
\* assertion that failed ("none" if none), the inner strategy and the bytes
\* after the call, the result, the call of the inner strategy and what it
\* returned, and the addresses written as header and as guard zones.
DecoAllocate(cfg, inner, bytes, size, alignment0) ==
  LET alignment  == DecoAlignment(cfg, alignment0)
      guard_size == DecoGuardSize(cfg, alignment)
      total_size == DecoTotalSize(guard_size, size)
      allocation == InnerAllocate(inner, total_size, alignment)
      fill       == DecoFill(cfg, bytes, allocation.result, size, guard_size, total_size)
      call       == [op |-> "Allocate", ptr |-> allocation.result.ptr,
                     size |-> total_size, alignment |-> alignment,
                     num_bytes |-> allocation.result.num_bytes]
  IN IF allocation.failed # "none"
       THEN [failed |-> allocation.failed, inner |-> inner, bytes |-> bytes,
             result |-> Null, call |-> call, header |-> {}, guards |-> {}]
     ELSE IF IsAllocation(allocation.result)
       THEN [failed |-> "none", inner |-> allocation.inner, bytes |-> fill.bytes,
             result |-> fill.result, call |-> call,
             header |-> fill.header, guards |-> fill.guards]
     ELSE [failed |-> "none", inner |-> allocation.inner, bytes |-> bytes,
           result |-> Null, call |-> call, header |-> {}, guards |-> {}]

\* Deallocate with a lock policy and a tracking policy that do nothing.
DecoDeallocate(cfg, inner, bytes, ptr, size, alignment0) ==
  LET alignment  == DecoAlignment(cfg, alignment0)
      guard_size == DecoGuardSize(cfg, alignment)
      total_size == DecoTotalSize(guard_size, size)
      bytes_bgn  == DecoBlockOf(ptr, guard_size)
      mark_bytes == bytes_bgn + guard_size + guard_size
      freed      == InnerDeallocate(inner, bytes_bgn, total_size, alignment)
  IN IF ptr = nullptr
       THEN [failed |-> "none", inner |-> inner, bytes |-> bytes, call |-> NoInnerCall]
     ELSE IF ~DecoVerify(cfg, bytes, ptr, guard_size)
       THEN [failed |-> "Memory guard byte check failure.", inner |-> inner,
             bytes |-> bytes, call |-> NoInnerCall]
     ELSE [failed |-> freed.failed, inner |-> freed.inner,
           bytes  |-> MarkFreedBytes(cfg, bytes, mark_bytes, size),
           call   |-> [op |-> "Deallocate", ptr |-> bytes_bgn, size |-> total_size,
                       alignment |-> alignment, num_bytes |-> 0]]

\* The second decorator of the history: the same class with both policies
\* disabled.
TwinOf(cfg) == [cfg EXCEPT !.Mark = FALSE, !.BoundCheck = FALSE]

\* The decorator is exercised in two set-ups.  "decorator" has one caller
\* and policies for locking and tracking that do nothing; a caller may
\* store a stray byte next to a region it holds.  "decomt" has several
\* calling threads and a mutual-exclusion lock.
DecoConfigs ==
  [which : {"Allocator", "MemoryManager"}, Mark : BOOLEAN, BoundCheck : BOOLEAN]

DecoInners ==
  {[strategy |-> "linear", self |-> LinearAllocatorCtor(base, DecoMemorySize),
    mem |-> <<>>] : base \in DecoBases}
  \cup
  {LET made == PoolAllocatorCtor(base, DecoMemorySize, block_size, alignment)
   IN [strategy |-> "pool", self |-> made.self, mem |-> made.mem] :
     base \in DecoBases, block_size \in DecoPoolBlockSizes,
     alignment \in DecoPoolAlignments}

\* "decosize" is "decorator" with a caller that may pass Deallocate a size
\* larger than the region it holds.
DecoKinds == {"decorator", "decosize"}

DecoInitOf(k) ==
  /\ kind = k
  /\ aborted = "none"
  /\ deco \in DecoConfigs
  /\ decoInner \in DecoInners
  /\ decoBytes = Bytes(decoInner.self.m_MemoryBgn,
                       decoInner.self.m_MemoryEnd - decoInner.self.m_MemoryBgn,
                       FreshByte)
  /\ decoLive = {}
  /\ decoGhost = DecoHistory(decoInner)
  /\ decoThreads = [lock |-> 0, todo |-> <<>>, local |-> <<>>, calls |-> 0,
                    done |-> <<>>]
  /\ result = Call("Init", 0, 1, Null)
  /\ IdleExcept(k)

DecoInit == DecoInitOf("decorator")

\* Allocate, in the decorator and in the second decorator of the history.
DecoAllocateStep ==
  \E size \in DecoSizes, alignment \in DecoAlignments :
    LET r == DecoAllocate(deco, decoInner, decoBytes, size, alignment)
        t == DecoAllocate(TwinOf(deco), decoGhost.twin, decoBytes, size, alignment)
        twinRuns == decoGhost.twinFailed = "none"
        tres == IF twinRuns THEN t.result ELSE Null
        held == r.failed = "none" /\ (IsAllocation(r.result) \/ IsAllocation(tres))
    IN
    /\ kind \in DecoKinds /\ aborted = "none"
    /\ decoGhost.allocates < MaxDecoAllocates
    /\ decoInner' = r.inner
    /\ decoBytes' = r.bytes
    /\ aborted' = r.failed
    /\ result' = Call("Allocate", size, alignment, r.result)
    /\ decoLive' = IF held
                   THEN decoLive \cup
                        {[ptr |-> r.result.ptr, num_bytes |-> r.result.num_bytes,
                          size |-> size, alignment |-> alignment,
                          inner |-> IF IsAllocation(r.result) THEN r.call ELSE NoInnerCall,
                          header |-> r.header, guards |-> r.guards, stray |-> FALSE,
                          tptr |-> tres.ptr, tnum |-> tres.num_bytes, owner |-> 0]}
                   ELSE decoLive
    /\ decoGhost' = [decoGhost EXCEPT
                       !.twin = IF twinRuns THEN t.inner ELSE @,
                       !.twinFailed = IF twinRuns THEN t.failed ELSE @,
                       !.twinResult = tres,
                       !.call = r.call,
                       !.freed = NoAllocation,
                       !.allocates = @ + 1]
    /\ UNCHANGED <<kind, deco, decoThreads, notDeco>>

\* Deallocate of a region the caller holds, with the alignment it was
\* requested with and either the size requested or the size Allocate
\* returned; the second decorator is given the region it returned for the
\* same request.
DecoDeallocateStep ==
  \E a \in decoLive, returned \in BOOLEAN :
    LET size  == IF returned THEN a.num_bytes ELSE a.size
        tsize == IF returned THEN a.tnum ELSE a.size
        r == DecoDeallocate(deco, decoInner, decoBytes, a.ptr, size, a.alignment)
        t == DecoDeallocate(TwinOf(deco), decoGhost.twin, decoBytes, a.tptr, tsize,
                            a.alignment)
        twinRuns == decoGhost.twinFailed = "none"
    IN
    /\ kind \in DecoKinds /\ aborted = "none"
    /\ a.ptr # nullptr => size # 0
    /\ decoInner' = r.inner
    /\ decoBytes' = r.bytes
    /\ aborted' = r.failed
    /\ result' = Call("Deallocate", size, a.alignment, AllocationResult(a.ptr, a.num_bytes))
    /\ decoLive' = IF r.failed = "none" THEN decoLive \ {a} ELSE decoLive
    /\ decoGhost' = [decoGhost EXCEPT
                       !.twin = IF twinRuns THEN t.inner ELSE @,
                       !.twinFailed = IF twinRuns THEN t.failed ELSE @,
                       !.twinResult = Null,
                       !.call = r.call,
                       !.freed = a]
    /\ UNCHANGED <<kind, deco, decoThreads, notDeco>>

\* The addresses next to the region of allocation a that a caller's
\* overrun or underrun reaches: the guard zones if Allocate wrote any, else
\* the byte of the buffer before the region and the byte after it.
DecoNeighbourhood(a) ==
  IF a.guards # {} THEN a.guards
  ELSE {a.ptr - 1, a.ptr + a.num_bytes} \cap DOMAIN decoBytes

\* A caller stores a byte just outside a region it holds; at most one of the
\* regions held has had such a write at any time.
DecoStrayWriteStep ==
  \E a \in decoLive : \E at \in DecoNeighbourhood(a) :
    /\ kind \in DecoKinds /\ aborted = "none"
    /\ a.ptr # nullptr
    /\ \A b \in decoLive : ~b.stray
    /\ decoBytes[at] # StrayByte
    /\ decoBytes' = [decoBytes EXCEPT ![at] = StrayByte]
    /\ decoLive' = (decoLive \ {a}) \cup {[a EXCEPT !.stray = TRUE]}
    /\ result' = Call("StrayWrite", 1, 1, AllocationResult(at, 1))
    /\ UNCHANGED <<kind, aborted, deco, decoInner, decoGhost, decoThreads, notDeco>>

DecoNext ==
  \/ DecoAllocateStep
  \/ DecoDeallocateStep
  \/ DecoStrayWriteStep

SpecDecorator == DecoInit /\ [][DecoNext]_vars

\* The bytes by which a caller overstates the size of a region; no more
\* than the smallest guard zone, so that the bytes marked stay in the block.
DecoOversizes == {1, AlignofMemoryIndex}

\* Deallocate of a region the caller holds, with the alignment it was
\* requested with and a size larger than the size Allocate returned.
DecoDeallocateOversizedStep ==
  \E a \in decoLive, over \in DecoOversizes :
    LET size == a.num_bytes + over
        r == DecoDeallocate(deco, decoInner, decoBytes, a.ptr, size, a.alignment)
    IN
    /\ kind = "decosize" /\ aborted = "none"
    /\ a.ptr # nullptr
    /\ decoInner' = r.inner
    /\ decoBytes' = r.bytes
    /\ aborted' = r.failed
    /\ result' = Call("DeallocateOversized", size, a.alignment,
                      AllocationResult(a.ptr, a.num_bytes))
    /\ decoLive' = IF r.failed = "none" THEN decoLive \ {a} ELSE decoLive
    /\ decoGhost' = [decoGhost EXCEPT !.twinResult = Null, !.call = r.call,
                                      !.freed = a]
    /\ UNCHANGED <<kind, deco, decoThreads, notDeco>>

DecoSizeInit == DecoInitOf("decosize")

\* A behaviour is followed up to the first Deallocate with an overstated
\* size.
DecoSizeNext ==
  \/ result.op # "DeallocateOversized" /\ DecoAllocateStep
  \/ result.op # "DeallocateOversized" /\ DecoDeallocateStep
  \/ result.op # "DeallocateOversized" /\ DecoStrayWriteStep
  \/ result.op # "DeallocateOversized" /\ DecoDeallocateOversizedStep

SpecDecoratorSize == DecoSizeInit /\ [][DecoSizeNext]_vars

\* The threads that call the decorator, and the most calls they make.
Threads == {1, 2}
MaxThreadCalls == 3
\* Sizes and alignments the threads request.
DecoMtSizes == {24}
DecoMtAlignments == {1}

\* The steps of a call, in the order the class executes them.  A step is
\* one of: Lock and Unlock of the lock policy; Enter and Leave, the call of
\* the inner strategy and its return; Track and Tracked, the call of the
\* tracking hook and its return; Fill, the writes of the size header, the
\* guard zones and the allocated marks; Verify, the check of the guard zones
\* followed by the freed marks; Return.  An Allocate whose inner call yields
\* no block skips Track, Tracked and Fill.
DecoSteps(which, op) ==
  IF op = "Allocate"
  THEN IF which = "Allocator"
       THEN <<"Lock", "Enter", "Leave", "Track", "Tracked", "Unlock", "Fill", "Return">>
       ELSE <<"Lock", "Enter", "Leave", "Fill", "Track", "Tracked", "Unlock", "Return">>
  ELSE IF which = "Allocator"
       THEN <<"Verify", "Lock", "Track", "Tracked", "Enter", "Leave", "Unlock", "Return">>
       ELSE <<"Lock", "Verify", "Track", "Tracked", "Enter", "Leave", "Unlock", "Return">>

\* The steps left of an Allocate after its inner call returned allocation.
DecoStepsAfter(todo, allocation) ==
  IF IsAllocation(allocation) THEN todo
  ELSE SelectSeq(todo, LAMBDA s : s \notin {"Track", "Tracked", "Fill"})

\* Faulty variant: Lock() returns at once whoever holds the lock.
LockIsFreeAlways(lock) == TRUE

\* LockPolicy::Lock() of a mutual-exclusion lock returns when no thread
\* holds the lock.
LockIsFree(lock) == lock = 0

\* A thread that is not in a call.
NoCall ==
  [op |-> "none", size |-> 0, alignment |-> 1, guard_size |-> 0, total_size |-> 0,
   allocation |-> Null, a |-> NoAllocation, res |-> Null, locks |-> 0, unlocks |-> 0]

\* The default policies: both follow BF_MEMORY_ASSERTIONS.
DecoDefaultConfigs == {cfg \in DecoConfigs : cfg.Mark = cfg.BoundCheck}

DecoMtInit ==
  /\ kind = "decomt"
  /\ aborted = "none"
  /\ deco \in DecoDefaultConfigs
  /\ \E base \in DecoBases :
       decoInner = [strategy |-> "linear",
                    self |-> LinearAllocatorCtor(base, DecoMemorySize), mem |-> <<>>]
  /\ decoBytes = Bytes(decoInner.self.m_MemoryBgn,
                       decoInner.self.m_MemoryEnd - decoInner.self.m_MemoryBgn,
                       FreshByte)
  /\ decoLive = {}
  /\ decoGhost = DecoHistory(decoInner)
  /\ decoThreads = [lock  |-> 0,
                    todo  |-> [t \in Threads |-> <<>>],
                    local |-> [t \in Threads |-> NoCall],
                    calls |-> 0,
                    done  |-> [t \in Threads |-> NoCall]]
  /\ result = Call("Init", 0, 1, Null)
  /\ IdleExcept("decomt")

\* The step thread t is at, or "none" outside a call.
AtStep(t) ==
  IF decoThreads.todo[t] = <<>> THEN "none" ELSE Head(decoThreads.todo[t])

\* Thread t calls Allocate: the statements before the first step.
MtAllocateCall(t) ==
  \E size \in DecoMtSizes, alignment0 \in DecoMtAlignments :
    LET alignment  == DecoAlignment(deco, alignment0)
        guard_size == DecoGuardSize(deco, alignment)
    IN
    /\ kind = "decomt" /\ aborted = "none"
    /\ AtStep(t) = "none"
    /\ decoThreads.calls < MaxThreadCalls
    /\ decoThreads' = [decoThreads EXCEPT
         !.todo[t]  = DecoSteps(deco.which, "Allocate"),
         !.calls    = @ + 1,
         !.local[t] = [NoCall EXCEPT !.op = "Allocate", !.size = size,
                                     !.alignment = alignment,
                                     !.guard_size = guard_size,
                                     !.total_size = DecoTotalSize(guard_size, size)]]
    /\ UNCHANGED <<kind, aborted, result, deco, decoInner, decoBytes, decoLive,
                   decoGhost, notDeco>>

\* Thread t calls Deallocate for a region no other thread is freeing, with
\* the size and alignment it was requested with.
MtDeallocateCall(t) ==
  \E a \in decoLive :
    LET alignment  == DecoAlignment(deco, a.alignment)
        guard_size == DecoGuardSize(deco, alignment)
    IN
    /\ kind = "decomt" /\ aborted = "none"
    /\ AtStep(t) = "none"
    /\ decoThreads.calls < MaxThreadCalls
    /\ a.owner = 0
    /\ decoLive' = (decoLive \ {a}) \cup {[a EXCEPT !.owner = t]}
    /\ decoThreads' = [decoThreads EXCEPT
         !.todo[t]  = DecoSteps(deco.which, "Deallocate"),
         !.calls    = @ + 1,
         !.local[t] = [NoCall EXCEPT !.op = "Deallocate", !.size = a.size,
                                     !.alignment = alignment,
                                     !.guard_size = guard_size,
                                     !.total_size = DecoTotalSize(guard_size, a.size),
                                     !.a = [a EXCEPT !.owner = t]]]
    /\ UNCHANGED <<kind, aborted, result, deco, decoInner, decoBytes, decoGhost,
                   notDeco>>

\* Thread t calls Deallocate with a null pointer: the call returns at once.
MtDeallocateNull(t) ==
  /\ kind = "decomt" /\ aborted = "none"
  /\ AtStep(t) = "none"
  /\ decoThreads.calls < MaxThreadCalls
  /\ decoThreads' = [decoThreads EXCEPT
       !.calls    = @ + 1,
       !.done[t]  = [NoCall EXCEPT !.op = "Deallocate"]]
  /\ result' = Call("Deallocate", 0, 1, Null)
  /\ UNCHANGED <<kind, aborted, deco, decoInner, decoBytes, decoLive, decoGhost,
                 notDeco>>

\* decoThreads after thread t has done the step it is at.
Stepped(t) == [decoThreads EXCEPT !.todo[t] = Tail(@)]

MtLock(t) ==
  /\ kind = "decomt" /\ aborted = "none"
  /\ AtStep(t) = "Lock"
  /\ LockIsFree(decoThreads.lock)
  /\ decoThreads' = [Stepped(t) EXCEPT !.lock = t, !.local[t].locks = @ + 1]
  /\ UNCHANGED <<kind, aborted, result, deco, decoInner, decoBytes, decoLive,
                 decoGhost, notDeco>>

MtUnlock(t) ==
  /\ kind = "decomt" /\ aborted = "none"
  /\ AtStep(t) = "Unlock"
  /\ decoThreads' = [Stepped(t) EXCEPT !.lock = 0, !.local[t].unlocks = @ + 1]
  /\ UNCHANGED <<kind, aborted, result, deco, decoInner, decoBytes, decoLive,
                 decoGhost, notDeco>>

\* Thread t enters the inner strategy's Allocate or Deallocate.
MtEnter(t) ==
  /\ kind = "decomt" /\ aborted = "none"
  /\ AtStep(t) = "Enter"
  /\ decoThreads' = Stepped(t)
  /\ UNCHANGED <<kind, aborted, result, deco, decoInner, decoBytes, decoLive,
                 decoGhost, notDeco>>

\* The inner strategy's call returns to thread t.
MtLeave(t) ==
  LET my == decoThreads.local[t]
      r  == InnerAllocate(decoInner, my.total_size, my.alignment)
      d  == InnerDeallocate(decoInner, DecoBlockOf(my.a.ptr, my.guard_size),
                            my.total_size, my.alignment)
  IN
  /\ kind = "decomt" /\ aborted = "none"
  /\ AtStep(t) = "Leave"
  /\ IF my.op = "Allocate"
     THEN /\ decoInner' = r.inner
          /\ aborted' = r.failed
          /\ decoThreads' = [decoThreads EXCEPT
               !.todo[t] = DecoStepsAfter(Tail(@), r.result),
               !.local[t].allocation = r.result]
     ELSE /\ decoInner' = d.inner
          /\ aborted' = d.failed
          /\ decoThreads' = Stepped(t)
  /\ UNCHANGED <<kind, result, deco, decoBytes, decoLive, decoGhost, notDeco>>

\* Thread t enters the tracking hook.
MtTrack(t) ==
  /\ kind = "decomt" /\ aborted = "none"
  /\ AtStep(t) = "Track"
  /\ decoThreads' = Stepped(t)
  /\ UNCHANGED <<kind, aborted, result, deco, decoInner, decoBytes, decoLive,
                 decoGhost, notDeco>>

\* The tracking hook returns to thread t.
MtTracked(t) ==
  /\ kind = "decomt" /\ aborted = "none"
  /\ AtStep(t) = "Tracked"
  /\ decoThreads' = Stepped(t)
  /\ UNCHANGED <<kind, aborted, result, deco, decoInner, decoBytes, decoLive,
                 decoGhost, notDeco>>

\* Thread t writes the size header, the guard zones and the allocated marks
\* into the block its inner call returned.
MtFill(t) ==
  LET my == decoThreads.local[t]
      f  == DecoFill(deco, decoBytes, my.allocation, my.size, my.guard_size,
                     my.total_size)
  IN
  /\ kind = "decomt" /\ aborted = "none"
  /\ AtStep(t) = "Fill"
  /\ decoBytes' = f.bytes
  /\ decoThreads' = [Stepped(t) EXCEPT
       !.local[t].res = f.result,
       !.local[t].a = [NoAllocation EXCEPT
                         !.ptr = f.result.ptr, !.num_bytes = f.result.num_bytes,
                         !.size = my.size, !.alignment = my.alignment,
                         !.header = f.header, !.guards = f.guards]]
  /\ UNCHANGED <<kind, aborted, result, deco, decoInner, decoLive, decoGhost, notDeco>>

\* Thread t checks the guard zones of the region it frees and writes the
\* freed marks.
MtVerify(t) ==
  LET my == decoThreads.local[t] IN
  /\ kind = "decomt" /\ aborted = "none"
  /\ AtStep(t) = "Verify"
  /\ IF DecoVerify(deco, decoBytes, my.a.ptr, my.guard_size)
     THEN /\ aborted' = "none"
          /\ decoBytes' = MarkFreedBytes(deco, decoBytes, my.a.ptr, my.size)
     ELSE /\ aborted' = "Memory guard byte check failure."
          /\ decoBytes' = decoBytes
  /\ decoThreads' = Stepped(t)
  /\ UNCHANGED <<kind, result, deco, decoInner, decoLive, decoGhost, notDeco>>

\* The call of thread t returns.
MtReturn(t) ==
  LET my == decoThreads.local[t] IN
  /\ kind = "decomt" /\ aborted = "none"
  /\ AtStep(t) = "Return"
  /\ decoLive' = IF my.op = "Deallocate" THEN decoLive \ {my.a}
                 ELSE IF IsAllocation(my.res) THEN decoLive \cup {my.a}
                 ELSE decoLive
  /\ result' = IF my.op = "Allocate"
               THEN Call("Allocate", my.size, my.alignment, my.res)
               ELSE Call("Deallocate", my.size, my.alignment,
                         AllocationResult(my.a.ptr, my.a.num_bytes))
  /\ decoThreads' = [Stepped(t) EXCEPT !.local[t] = NoCall, !.done[t] = my]
  /\ UNCHANGED <<kind, aborted, deco, decoInner, decoBytes, decoGhost, notDeco>>

\* A step of the call thread t is in.
MtContinue(t) ==
  \/ MtLock(t)
  \/ MtUnlock(t)
  \/ MtEnter(t)
  \/ MtLeave(t)
  \/ MtTrack(t)
  \/ MtTracked(t)
  \/ MtFill(t)
  \/ MtVerify(t)
  \/ MtReturn(t)

DecoMtNext ==
  \E t \in Threads :
    \/ MtAllocateCall(t)
    \/ MtDeallocateCall(t)
    \/ MtDeallocateNull(t)
    \/ MtContinue(t)

\* Every thread that is in a call keeps being scheduled, so it takes the
\* step it is at once that step stays possible; callers need not call.
DecoMtFairness == \A t \in Threads : WF_vars(MtContinue(t))

SpecDecoratorMt == DecoMtInit /\ [][DecoMtNext]_vars /\ DecoMtFairness

----------------------------------------------------------------------------
(* Concurrent linear allocator (fixed_mt_allocators.cpp)                   *)

\* Size in bytes and start of the buffer handed to the allocator.
ClMemorySize == 8
ClBases == {16, 17}
\* Sizes and alignments requested.
ClSizes == {0, 1, 3}
ClAlignments == {1, 4}
\* The calling threads, and the most calls they make.
ClThreads == {1, 2}
MaxClCalls == 3

ConcurrentLinearAllocatorCtor(memory_block, memory_block_size) ==
  [m_MemoryBgn |-> memory_block,
   m_MemoryEnd |-> memory_block + memory_block_size,
   m_Current   |-> memory_block]

\* Faulty variant: the cursor is read and left where it is.
FetchAddKeeps(current, arg) == [old |-> current, new |-> current]

\* std::atomic<byte*>::fetch_add(arg): the value read and the value stored,
\* in one atomic step.
FetchAdd(current, arg) == [old |-> current, new |-> current + arg]

\* Allocate up to its return or to the store of the failure path: the
\* cursor after the fetch_add, whether the request fits, and the result
\* returned if it does.
ClAllocate(self, size, alignment) ==
  LET required_size   == size + (alignment - 1)
      fetched         == FetchAdd(self.m_Current, required_size)
      ptr             == fetched.old
      aligned_ptr     == AlignPointer(ptr, alignment)
      ptr_end         == ptr + required_size
      clamped_ptr_end == IF ptr_end < self.m_MemoryEnd THEN ptr_end ELSE self.m_MemoryEnd
      allocated_size  == clamped_ptr_end - aligned_ptr
  IN [self   |-> [self EXCEPT !.m_Current = fetched.new],
      fits   |-> aligned_ptr + size <= self.m_MemoryEnd,
      result |-> AllocationResult(aligned_ptr, allocated_size)]

ClInit ==
  /\ kind = "concurrent"
  /\ aborted = "none"
  /\ \E base \in ClBases : clinear = ConcurrentLinearAllocatorCtor(base, ClMemorySize)
  /\ clThreads = [t \in ClThreads |-> [pc |-> "idle", size |-> 0, alignment |-> 1]]
  /\ clGhost = [returned |-> {}, calls |-> 0]
  /\ result = Call("Init", 0, 1, Null)
  /\ IdleExcept("concurrent")

\* Thread t calls Allocate and executes it through the fetch_add; a request
\* that fits returns (the statements left touch no shared state), one that
\* does not goes on to the store.
ClAllocateFetchAdd(t) ==
  \E size \in ClSizes, alignment \in ClAlignments :
    LET r == ClAllocate(clinear, size, alignment) IN
    /\ kind = "concurrent" /\ aborted = "none"
    /\ clThreads[t].pc = "idle"
    /\ clGhost.calls < MaxClCalls
    /\ clinear' = r.self
    /\ IF r.fits
       THEN /\ clThreads' = clThreads
            /\ result' = Call("Allocate", size, alignment, r.result)
            /\ clGhost' = [returned |-> clGhost.returned \cup
                                          {[ptr |-> r.result.ptr,
                                            num_bytes |-> r.result.num_bytes,
                                            size |-> size, alignment |-> alignment,
                                            thread |-> t, call |-> clGhost.calls]},
                           calls |-> clGhost.calls + 1]
       ELSE /\ clThreads' = [clThreads EXCEPT
                               ![t] = [pc |-> "store", size |-> size,
                                       alignment |-> alignment]]
            /\ result' = result
            /\ clGhost' = [clGhost EXCEPT !.calls = @ + 1]
    /\ UNCHANGED <<kind, aborted, notCl>>

\* Thread t, whose request did not fit, stores m_MemoryEnd into the cursor
\* and returns the Null result.
ClAllocateStore(t) ==
  /\ kind = "concurrent" /\ aborted = "none"
  /\ clThreads[t].pc = "store"
  /\ clinear' = [clinear EXCEPT !.m_Current = clinear.m_MemoryEnd]
  /\ clThreads' = [clThreads EXCEPT ![t] = [pc |-> "idle", size |-> 0, alignment |-> 1]]
  /\ result' = Call("Allocate", clThreads[t].size, clThreads[t].alignment, Null)
  /\ UNCHANGED <<kind, aborted, clGhost, notCl>>

\* Thread t calls Deallocate for a region Allocate returned: nothing is done.
ClDeallocate(t) ==
  \E r \in clGhost.returned :
    /\ kind = "concurrent" /\ aborted = "none"
    /\ clThreads[t].pc = "idle"
    /\ clGhost.calls < MaxClCalls
    /\ clGhost' = [clGhost EXCEPT !.calls = @ + 1]
    /\ result' = Call("Deallocate", r.size, r.alignment,
                      AllocationResult(r.ptr, r.num_bytes))
    /\ UNCHANGED <<kind, aborted, clinear, clThreads, notCl>>

ClNext ==
  \E t \in ClThreads :
    \/ ClAllocateFetchAdd(t)
    \/ ClAllocateStore(t)
    \/ ClDeallocate(t)

SpecConcurrentLinear == ClInit /\ [][ClNext]_vars

----------------------------------------------------------------------------
(* MemoryRequirements (basic_types.hpp)                                    *)

\* MemoryIndex is std::size_t: unsigned arithmetic wraps at 2^64.  The
\* width is scaled down to 6 bits, and the element sizes with it, so that
\* products and sums reach the wrap.
MemoryIndexModulus == 64
MemoryIndexMax == MemoryIndexModulus - 1
MemoryIndexOf(n) == n % MemoryIndexModulus

\* Arguments of Append, and the most Appends made on one accumulator.
MrElementSizes == {1, 4, 40}
MrElementCounts == {0, 1, 2}
MrElementAlignments == {1, 4, 16}
MaxAppends == 3

WillMulOverflow(lhs, rhs) ==
  IF rhs > 1 THEN lhs > MemoryIndexMax \div rhs ELSE FALSE

\* MemoryRequirements::Append: the accumulator after the call and the
\* offset returned.
MemoryRequirementsAppend(self, element_size, element_count, element_alignment) ==
  IF WillMulOverflow(element_size, element_count)
  THEN [self |-> self, offset |-> self.size]
  ELSE LET allocation_size == MemoryIndexOf(element_size * element_count) IN
       IF allocation_size = 0
       THEN [self |-> self, offset |-> self.size]
       ELSE LET allocation_offset == MemoryIndexOf(AlignSize(self.size, element_alignment)) IN
            [self   |-> [size      |-> MemoryIndexOf(allocation_offset + allocation_size),
                         alignment |-> IF element_alignment > self.alignment
                                       THEN element_alignment ELSE self.alignment],
             offset |-> allocation_offset]

\* IsBufferValid(buffer): only the alignment is checked.
IsBufferAligned(self, buffer) == IsPointerAligned(buffer, self.alignment)

\* IsBufferValid(buffer, buffer_size)
IsBufferValid(self, buffer, buffer_size) ==
  buffer_size <= self.size /\ IsBufferAligned(self, buffer)

\* Buffers offered to IsBufferValid, and their sizes.
MrBuffers == {64, 68, 80}
MrBufferSizes == {0, 4, 8, 44}

\* A fresh accumulator: size = 0u, alignment = alignof(byte).
ReqInit ==
  /\ kind = "requirements"
  /\ aborted = "none"
  /\ memReqs = [size |-> 0, alignment |-> 1]
  /\ mrGhost = <<>>
  /\ sized = [size |-> 0, alignment |-> 1, applied |-> FALSE, aligned |-> 0, again |-> 0]
  /\ result = Call("Init", 0, 1, Null)
  /\ IdleExcept("requirements")

AppendStep ==
  \E element_size \in MrElementSizes, element_count \in MrElementCounts,
     element_alignment \in MrElementAlignments :
    LET r == MemoryRequirementsAppend(memReqs, element_size, element_count, element_alignment) IN
    /\ kind = "requirements" /\ aborted = "none"
    /\ Len(mrGhost) < MaxAppends
    /\ memReqs' = r.self
    /\ mrGhost' = Append(mrGhost, [element_size      |-> element_size,
                                   element_count     |-> element_count,
                                   element_alignment |-> element_alignment,
                                   offset            |-> r.offset])
    /\ UNCHANGED <<kind, aborted, result, sized, notReq>>

ReqNext == AppendStep

SpecRequirements == ReqInit /\ [][ReqNext]_vars

----------------------------------------------------------------------------
(* AlignSize (alignment.hpp), applied to sizes and alignments of a range   *)

\* The largest size aligned, and the alignments passed: the powers of two
\* up to 16 and one value that is not a power of two.
MaxAlignedSize == 40
AlignSizeAlignments == {1, 2, 4, 8, 16, 3}

AlignSizeInit ==
  /\ kind = "alignsize"
  /\ aborted = "none"
  /\ \E size \in 0..MaxAlignedSize, alignment \in AlignSizeAlignments :
       sized = [size |-> size, alignment |-> alignment, applied |-> FALSE,
                aligned |-> 0, again |-> 0]
  /\ memReqs = [size |-> 0, alignment |-> 1]
  /\ mrGhost = <<>>
  /\ result = Call("Init", 0, 1, Null)
  /\ IdleExcept("alignsize")

\* AlignSize(size, alignment), and AlignSize of what it returned; an
\* alignment that is not a power of two fails the assertion.
AlignSizeStep ==
  /\ kind = "alignsize" /\ aborted = "none"
  /\ ~sized.applied
  /\ IF ~IsValidAlignment(sized.alignment)
     THEN /\ aborted' = "The alignment (%zu) must be a non-zero power of two."
          /\ sized' = sized
     ELSE /\ aborted' = aborted
          /\ sized' = [sized EXCEPT
                         !.applied = TRUE,
                         !.aligned = AlignSize(sized.size, sized.alignment),
                         !.again   = AlignSize(AlignSize(sized.size, sized.alignment),
                                               sized.alignment)]
  /\ UNCHANGED <<kind, result, memReqs, mrGhost, notReq>>

AlignSizeNext == AlignSizeStep

SpecAlignSize == AlignSizeInit /\ [][AlignSizeNext]_vars

----------------------------------------------------------------------------
(* Blocks freed twice (pool and growing pool)                              *)

\* Deallocate is called again with the arguments of the Deallocate that
\* has just been accepted: the block is on the free list already.
PoolDeallocateAgainStep ==
  LET r == PoolDeallocate(pool, poolMem, result.ptr, result.size, result.alignment) IN
  /\ kind = "poolfree" /\ aborted = "none"
  /\ result.op = "Deallocate"
  /\ pool' = r.self
  /\ poolMem' = r.mem
  /\ aborted' = r.failed
  /\ result' = [result EXCEPT !.op = "DoubleFree"]
  /\ poolGhost' = [poolGhost EXCEPT !.streak = -1, !.freed = nullptr, !.from = -1]
  /\ UNCHANGED <<kind, poolLive, notPool>>

GrowDeallocateAgainStep ==
  LET r == GrowDeallocate(grow, growMem, result.ptr, result.size, result.alignment) IN
  /\ kind = "growfree" /\ aborted = "none"
  /\ result.op = "Deallocate"
  /\ grow' = r.self
  /\ growMem' = r.mem
  /\ aborted' = r.failed
  /\ result' = [result EXCEPT !.op = "DoubleFree"]
  /\ growGhost' = GrowHistoryOfOther(growGhost)
  /\ UNCHANGED <<kind, parent, growLive, notGrow>>

DoubleFreeInit == PoolInitOf("poolfree") \/ GrowInitOf("growfree")

\* The calls made of the two pools; a behaviour is followed up to the first
\* block freed twice.
DoubleFreeNext ==
  \/ /\ result.op # "DoubleFree"
     /\ \/ PoolAllocateStep
        \/ PoolDeallocateStep
        \/ PoolResetStep
        \/ GrowAllocateStep
        \/ GrowDeallocateStep
        \/ GrowClearStep
        \/ GrowFreeMemoryStep
  \/ PoolDeallocateAgainStep
  \/ GrowDeallocateAgainStep

SpecDoubleFree == DoubleFreeInit /\ [][DoubleFreeNext]_vars

----------------------------------------------------------------------------
(* Linear allocator with the regions its caller holds                      *)

\* In the set-up "linlive" the model keeps the regions that are live
\* (returned by Allocate and neither passed to Deallocate nor given up by a
\* Clear or a Restore since) and one region that was live and is no longer.
\* Deallocate does not read its alignment argument, so a region is kept as
\* its address and its size.
NoRegion == [ptr |-> nullptr, num_bytes |-> 0]

\* Save points that may be open at once in this set-up.
MaxLiveScopes == 1
RegionEnd(r) == r.ptr + r.num_bytes

LiveInit ==
  /\ kind = "linlive"
  /\ aborted = "none"
  /\ \E base \in LinearBases : linear = LinearAllocatorCtor(base, LinearMemorySize)
  /\ savePoints = <<>>
  /\ linGhost = [live |-> {}, stale |-> NoRegion, staleFreed |-> FALSE]
  /\ result = Call("Init", 0, 1, Null)
  /\ IdleExcept("linlive")

LiveAllocateStep ==
  \E size \in LinearSizes, alignment \in Alignments :
    LET r == LinearAllocate(linear, size, alignment) IN
    /\ kind = "linlive" /\ aborted = "none"
    /\ linear' = r.self
    /\ result' = Call("Allocate", 0, 1, r.result)
    /\ linGhost' = IF IsAllocation(r.result)
                   THEN [linGhost EXCEPT !.live = @ \cup
                           {[ptr |-> r.result.ptr, num_bytes |-> r.result.num_bytes]}]
                   ELSE linGhost
    /\ UNCHANGED <<kind, aborted, savePoints, notLin>>

\* Deallocate of a live region, with the size of its request.
LiveDeallocateStep ==
  \E r \in linGhost.live : \E s \in {linGhost.stale, r} :
    /\ kind = "linlive" /\ aborted = "none"
    /\ linear' = LinearDeallocate(linear, r.ptr, r.num_bytes, DefaultAlignment)
    /\ result' = Call("Deallocate", 0, 1, Null)
    /\ linGhost' = [linGhost EXCEPT !.live = @ \ {r}, !.stale = s]
    /\ UNCHANGED <<kind, aborted, savePoints, notLin>>

\* Deallocate of a region Allocate returned that is live no longer (a
\* region with the address and size of a live one is that live region).
LiveDeallocateStaleStep ==
  LET r == linGhost.stale IN
  /\ kind = "linlive" /\ aborted = "none"
  /\ r # NoRegion
  /\ r \notin linGhost.live
  /\ linear' = LinearDeallocate(linear, r.ptr, r.num_bytes, DefaultAlignment)
  /\ result' = Call("Deallocate", 0, 1, Null)
  /\ linGhost' = [linGhost EXCEPT !.staleFreed = TRUE]
  /\ UNCHANGED <<kind, aborted, savePoints, notLin>>

LiveClearStep ==
  \E s \in {linGhost.stale} \cup linGhost.live :
    /\ kind = "linlive" /\ aborted = "none"
    /\ linear' = LinearClear(linear)
    /\ result' = Call("Clear", 0, 1, Null)
    /\ linGhost' = [linGhost EXCEPT !.live = {}, !.stale = s]
    /\ UNCHANGED <<kind, aborted, savePoints, notLin>>

LiveSaveStep ==
  /\ kind = "linlive" /\ aborted = "none"
  /\ Len(savePoints) < MaxLiveScopes
  /\ savePoints' = Append(savePoints, SavePointSave(linear))
  /\ result' = Call("Save", 0, 1, Null)
  /\ UNCHANGED <<kind, aborted, linear, linGhost, notLin>>

\* Restore() of the save point made last: the regions that reach past the
\* restore point are given up.
LiveRestoreStep ==
  LET top  == Len(savePoints)
      gone == {r \in linGhost.live : RegionEnd(r) > savePoints[top].m_RestorePoint}
  IN
  /\ kind = "linlive" /\ aborted = "none"
  /\ savePoints # <<>>
  /\ linear' = SavePointRestore(savePoints[top], linear)
  /\ savePoints' = SubSeq(savePoints, 1, top - 1)
  /\ result' = Call("Restore", 0, 1, Null)
  /\ \E s \in {linGhost.stale} \cup gone :
       linGhost' = [linGhost EXCEPT !.live = @ \ gone, !.stale = s]
  /\ UNCHANGED <<kind, aborted, notLin>>

\* The set-up follows the allocator up to the first Deallocate of a region
\* that is no longer live.
LiveNext ==
  \/ ~linGhost.staleFreed /\ LiveAllocateStep
  \/ ~linGhost.staleFreed /\ LiveDeallocateStep
  \/ ~linGhost.staleFreed /\ LiveDeallocateStaleStep
  \/ ~linGhost.staleFreed /\ LiveClearStep
  \/ ~linGhost.staleFreed /\ LiveSaveStep
  \/ ~linGhost.staleFreed /\ LiveRestoreStep

SpecLinearLive == LiveInit /\ [][LiveNext]_vars

----------------------------------------------------------------------------
(* Claims about every strategy                                             *)

Strategies == {"linear", "stack", "pool", "growing", "freelist"}

\* C1: for every strategy, an Allocate of size > 0 with a power-of-two
\* alignment the strategy accepts returns either the Null result (null
\* pointer, byte count 0) or a byte count of at least size with a pointer
\* that is a multiple of alignment.
C1_AllocateResultContract ==
  (kind \in Strategies /\ aborted = "none" /\ result.op = "Allocate" /\ result.size > 0)
    => \/ result.ptr = nullptr /\ result.num_bytes = 0
       \/ /\ result.ptr # nullptr
          /\ result.num_bytes >= result.size
          /\ result.ptr % result.alignment = 0

\* The free-list allocator returned more bytes than asked for, at an address
\* it had to move forward to reach the alignment.
C1_Witness ==
  /\ kind = "freelist" /\ aborted = "none"
  /\ result.op = "Allocate" /\ result.ptr # nullptr
  /\ result.alignment > 1
  /\ result.num_bytes > result.size
  /\ \E a \in flLive : a.ptr = result.ptr /\ a.offset < a.alignment

\* The last call was Deallocate(p, s, a) of a block {p, n} that
\* Allocate(req, a) returned and the caller still held, with req <= s <= n.
\* (Of the two sizes the stack's Deallocate is tried with, only the requested
\* one is in that range; the linear allocator is tried with every pointer
\* and size, those of its allocations among them.)
ContractDeallocate ==
  /\ kind \in Strategies
  /\ result.op = "Deallocate"
  /\ kind = "stack" => result.size = stackGhost.req

\* C2: for every strategy, Deallocate(p, s, a) of a block {p, n} returned by
\* Allocate(req, a), with req <= s <= n, trips no assertion and releases
\* the block.
C2_DeallocateAccepted ==
  ContractDeallocate =>
    /\ aborted = "none"
    /\ kind = "pool" => pool.m_PoolHead = result.ptr
    /\ kind = "growing" => grow.m_PoolHead = result.ptr
    /\ kind = "freelist" => \A a \in flLive : a.ptr # result.ptr

----------------------------------------------------------------------------
(* Claims about the linear allocator                                       *)

Overlap(p, n, q, m) == p < q + m /\ q < p + n

\* C3: the regions returned by successive successful Allocate calls (no
\* Clear, Restore or Deallocate in between) are pairwise disjoint, lie inside
\* [m_MemoryBgn, m_MemoryEnd), and each pointer has the requested alignment.
C3_LinearRegionsDisjointAligned ==
  kind = "linear" =>
    LET run == linGhost.run IN
    /\ \A i \in 1 .. Len(run) :
         /\ linear.m_MemoryBgn <= run[i].ptr
         /\ run[i].ptr + run[i].num_bytes <= linear.m_MemoryEnd
    /\ \A i, j \in 1 .. Len(run) :
         i # j => ~Overlap(run[i].ptr, run[i].num_bytes, run[j].ptr, run[j].num_bytes)
    /\ (result.op = "Allocate" /\ result.ptr # nullptr)
         => /\ result.ptr % result.alignment = 0
            /\ run # <<>>
            /\ run[Len(run)].ptr = result.ptr
            /\ run[Len(run)].num_bytes = result.num_bytes

C3_Witness ==
  /\ kind = "linear"
  /\ Len(linGhost.run) >= 3
  /\ \E i \in 1 .. Len(linGhost.run) - 1 :
       linGhost.run[i + 1].ptr > linGhost.run[i].ptr + linGhost.run[i].num_bytes

\* C4: an Allocate of size 0, or one whose aligned start plus size passes
\* m_MemoryEnd, returns Null and changes no field of the allocator; a smaller
\* request that fits then still succeeds.
C4_LinearFailedAllocateKeepsState ==
  [][(/\ kind = "linear"
      /\ result'.op = "Allocate"
      /\ \/ result'.size = 0
         \/ AlignPointer(linear.m_Current, result'.alignment) + result'.size > linear.m_MemoryEnd)
     => /\ result'.ptr = nullptr /\ result'.num_bytes = 0
        /\ linear' = linear
        /\ \A s \in LinearSizes \ {0}, a \in Alignments :
             AlignPointer(linear.m_Current, a) + s <= linear.m_MemoryEnd
               => LinearAllocate(linear', s, a).result.ptr = AlignPointer(linear.m_Current, a)]_vars

C4_Witness ==
  /\ kind = "linear"
  /\ result.op = "Allocate" /\ result.size > 1 /\ result.ptr = nullptr
  /\ linear.m_Current > linear.m_MemoryBgn
  /\ LinearAllocate(linear, 1, 1).result.ptr # nullptr

\* C5: Clear() sets m_Current to m_MemoryBgn from any state, and the
\* Allocate calls that follow a Clear() return what the same requests return
\* on a freshly constructed allocator over the same buffer.
C5_LinearClearReplays ==
  kind = "linear" =>
    /\ result.op = "Clear" => linear.m_Current = linear.m_MemoryBgn
    /\ linGhost.fromClear =>
         /\ linGhost.same
         /\ linGhost.run # <<>> => linGhost.shadow = linear.m_Current

C5_Witness ==
  /\ kind = "linear"
  /\ linGhost.cleared /\ linGhost.fromClear
  /\ Len(linGhost.run) >= 2
  /\ result.op = "Allocate" /\ result.ptr # nullptr

C7_RestoreReturnsToEntry ==
  (kind = "scope" /\ result.op = "Restore") => linear.m_Current = result.ptr

C7_Witness ==
  /\ kind = "scope"
  /\ result.op = "Restore"
  /\ Len(savePoints) = 1
  /\ linGhost.before > result.ptr
  /\ result.ptr > savePoints[1].m_RestorePoint

----------------------------------------------------------------------------
(* Claims about the stack allocator                                        *)

\* The last call was Deallocate of a live stack allocation with the size it
\* was requested with, while at least two allocations were live.
StackHonestDeallocate ==
  /\ kind = "stack"
  /\ result.op = "Deallocate"
  /\ stackGhost.depth >= 2
  /\ result.size = stackGhost.req

\* C8: after Allocate(A) and Allocate(B) succeed, Deallocate of B with B's
\* size and alignment trips no assertion and leaves stack_ptr at the value
\* it had immediately before Allocate(B).
C8_StackDeallocateTopRestores ==
  (StackHonestDeallocate /\ stackGhost.top)
    => (aborted = "none" /\ stack.m_StackPtr = stackGhost.expect)

\* C9: after Allocate(A) and Allocate(B) succeed, Deallocate of A while B is
\* live trips the stack-order assertion instead of rewinding.
StackOrderAssertion ==
  "Invalid pointer passed in (Stack pointer should be ahead of restore point)."

C9_StackDeallocateOutOfOrderAsserts ==
  (StackHonestDeallocate /\ ~stackGhost.top)
    => (aborted = StackOrderAssertion /\ stack.m_StackPtr = stackGhost.before)

----------------------------------------------------------------------------
(* Claims about the pool allocator                                         *)

\* block_count = usable_space / AlignSize(block_size, alignment), where the
\* usable space starts at the first aligned address of the buffer.
PoolBlockCount ==
  (pool.m_MemoryEnd - AlignPointer(pool.m_MemoryBgn, pool.m_Alignment))
    \div AlignSize(pool.m_BlockSize, pool.m_Alignment)

\* C10: after construction or Reset, exactly block_count consecutive
\* Allocate calls succeed, with pairwise distinct, non-overlapping blocks
\* inside the buffer, and the next Allocate returns Null; Reset brings the
\* pool back to the state the constructor left, whatever is outstanding.
C10_PoolCapacity ==
  (kind = "pool" /\ aborted = "none") =>
    /\ (result.op = "Allocate" /\ poolGhost.streak >= 0) =>
         IF result.ptr = nullptr
         THEN poolGhost.streak = PoolBlockCount /\ result.num_bytes = 0
         ELSE poolGhost.streak <= PoolBlockCount /\ result.num_bytes > 0
    /\ ~poolGhost.dup
    /\ \A a \in poolLive :
         /\ pool.m_MemoryBgn <= a.ptr /\ a.ptr + pool.m_BlockSize <= pool.m_MemoryEnd
         /\ \A b \in poolLive :
              a.ptr # b.ptr => ~Overlap(a.ptr, pool.m_BlockSize, b.ptr, pool.m_BlockSize)
    /\ result.op = "Reset" =>
         LET c == PoolAllocatorCtor(pool.m_MemoryBgn, pool.m_MemoryEnd - pool.m_MemoryBgn,
                                    pool.m_BlockSize, pool.m_Alignment)
         IN pool = c.self /\ poolMem = c.mem /\ poolLive = {}

\* A pool of at least two blocks was emptied by a run of Allocates made
\* after a Reset that found blocks outstanding, and the next one failed.
C10_Witness ==
  /\ kind = "pool" /\ aborted = "none"
  /\ result.op = "Allocate" /\ result.ptr = nullptr
  /\ poolGhost.reset
  /\ poolGhost.streak = PoolBlockCount
  /\ PoolBlockCount >= 2
  /\ Cardinality(poolLive) = PoolBlockCount

\* C11: the pool's free list is last-in first-out: an accepted Deallocate
\* of a live block p that is immediately followed by an Allocate within
\* the pool's block size and alignment makes that Allocate return p.
C11_PoolReusesLastFreed ==
  (kind = "pool" /\ aborted = "none" /\ result.op = "Allocate"
     /\ poolGhost.freed # nullptr) =>
    /\ result.ptr = poolGhost.freed
    /\ result.num_bytes = pool.m_BlockSize

\* A block was freed while another block was free and a third was still
\* held, and the Allocate that followed handed the freed block out again.
C11_Witness ==
  /\ kind = "pool" /\ aborted = "none" /\ result.op = "Allocate"
  /\ poolGhost.freed # nullptr /\ result.ptr = poolGhost.freed
  /\ pool.m_PoolHead # nullptr
  /\ Cardinality(poolLive) >= 2

\* C12: IndexOf and FromIndex are mutually inverse: for every index below
\* the block count FromIndex accepts the index, and IndexOf of the pointer
\* it returns is accepted and gives the index back.
C12_IndexRoundTrip ==
  (kind = "poolindex") =>
    /\ (result.op = "FromIndex" /\ result.size < PoolBlockCount) => aborted = "none"
    /\ (result.op = "IndexOf" /\ poolGhost.from >= 0) =>
         aborted = "none" /\ result.size = poolGhost.from

\* IndexOf gave back the last index of a pool of several blocks whose
\* block size is not a multiple of its alignment.
C12_Witness ==
  /\ kind = "poolindex" /\ aborted = "none"
  /\ result.op = "IndexOf" /\ poolGhost.from >= 1
  /\ poolGhost.from = PoolBlockCount - 1
  /\ result.size = poolGhost.from
  /\ pool.m_BlockSize % pool.m_Alignment # 0

----------------------------------------------------------------------------
(* Claims about the growing pool allocator                                 *)

\* The parent is called by Allocate only on an empty free list, at most
\* once a call, for one chunk of m_ChunkMemSize + sizeof(ChunkFooter) bytes.
GrowRequestsOneChunk ==
  (kind = "growing" /\ aborted = "none" /\ result.op = "Allocate") =>
    /\ Len(growGhost.reqs) <= 1
    /\ growGhost.reqs # <<>> =>
         /\ ~growGhost.hadFree
         /\ growGhost.reqs[1].size = grow.m_ChunkMemSize + SizeofChunkFooter
         /\ growGhost.reqs[1].alignment = grow.m_Alignment

\* C13: Allocate calls the parent only when the free list is empty, at most
\* once a call and for exactly one chunk of the chunk size plus the footer;
\* the chunk obtained serves exactly num_blocks_per_chunk Allocates, the one
\* that obtained it included, before the parent is called again.
C13_GrowOneRequestPerChunk ==
  /\ GrowRequestsOneChunk
  /\ (kind = "growing" /\ aborted = "none" /\ result.op = "Allocate") =>
       /\ (growGhost.reqs # <<>> /\ growGhost.prevServed >= 0) =>
            growGhost.prevServed = growGhost.numBlocks
       /\ (growGhost.reqs = <<>> /\ growGhost.served >= 0) =>
            growGhost.served <= growGhost.numBlocks

\* The total of the sizes of the parent calls of calls.
RECURSIVE TotalBytes(_)
TotalBytes(calls) ==
  IF calls = <<>> THEN 0 ELSE Head(calls).size + TotalBytes(Tail(calls))

\* C14: FreeMemory calls the parent's Deallocate exactly once for every
\* chunk obtained and not yet returned, with the pointer, size and
\* alignment of the request that obtained it, so the bytes returned add up
\* to the bytes requested.
C14_FreeMemoryReturnsEveryChunk ==
  (kind = "growing" /\ result.op = "FreeMemory") =>
    LET returned == growGhost.returned
        obtained == growGhost.outBefore
    IN /\ \A i \in DOMAIN obtained :
            Cardinality({j \in DOMAIN returned : returned[j] = obtained[i]}) = 1
       /\ \A j \in DOMAIN returned : \E i \in DOMAIN obtained : returned[j] = obtained[i]
       /\ TotalBytes(returned) = TotalBytes(obtained)

\* FreeMemory handed back several chunks, obtained by several Allocates.
C14_Witness ==
  /\ kind = "growing" /\ aborted = "none" /\ result.op = "FreeMemory"
  /\ Len(growGhost.outBefore) >= 2
  /\ Len(growGhost.returned) = Len(growGhost.outBefore)
  /\ parent.m_Current = parent.m_MemoryBgn

\* C15: FreeMemory is idempotent: it leaves the chunk list and the free
\* list empty, a second call right after it makes no parent Deallocate
\* call, and no call returns a chunk the pool does not hold.
C15_FreeMemoryIdempotent ==
  (kind = "growing" /\ result.op = "FreeMemory") =>
    /\ grow.m_Chunks = nullptr /\ grow.m_PoolHead = nullptr
    /\ growGhost.out = <<>>
    /\ growGhost.again >= 0 => growGhost.returned = <<>>
    /\ \A j \in DOMAIN growGhost.returned :
         \E i \in DOMAIN growGhost.outBefore : growGhost.returned[j] = growGhost.outBefore[i]

\* FreeMemory was called right after a FreeMemory that had returned several
\* chunks, and called the parent for none.
C15_Witness ==
  /\ kind = "growing" /\ aborted = "none" /\ result.op = "FreeMemory"
  /\ growGhost.again >= 2
  /\ growGhost.returned = <<>>

\* C16: an Allocate that returns Null leaves the allocator as it was: the
\* chunk list, the free list and the words they are threaded through are
\* those of before the call.
C16_GrowNullKeepsState ==
  (kind = "growing" /\ aborted = "none" /\ result.op = "Allocate"
     /\ result.ptr = nullptr) => growGhost.kept

\* The chunk footers linked from chunk on.
RECURSIVE GrowChunkList(_, _)
GrowChunkList(mem, chunk) ==
  IF chunk = nullptr THEN <<>> ELSE <<chunk>> \o GrowChunkList(mem, mem[chunk])

\* The blocks linked from head on.
RECURSIVE GrowFreeList(_, _)
GrowFreeList(mem, head) ==
  IF head = nullptr THEN <<>> ELSE <<head>> \o GrowFreeList(mem, mem[head])

\* Clear leaves the chunk list as it was and puts on the free list, once
\* each, only blocks that lie in the chunks.
GrowClearRebuilds ==
  (kind = "growing" /\ result.op = "Clear") =>
    LET chunks == GrowChunkList(growMem, grow.m_Chunks)
        free   == GrowFreeList(growMem, grow.m_PoolHead)
    IN /\ chunks = [i \in DOMAIN growGhost.out |->
                      growGhost.out[i].ptr + grow.m_ChunkMemSize]
       /\ \A i, j \in DOMAIN free : i # j => free[i] # free[j]
       /\ \A i \in DOMAIN free : \E c \in DOMAIN chunks :
            /\ chunks[c] - grow.m_ChunkMemSize <= free[i]
            /\ free[i] + grow.m_BlockSize <= chunks[c]

\* C17: Clear keeps the chunk list and rebuilds the free list with every
\* block of every chunk exactly once, so that it holds num_blocks_per_chunk
\* blocks for every chunk and that many Allocates succeed before the parent
\* is called again.
C17_ClearRestoresCapacity ==
  /\ GrowClearRebuilds
  /\ (kind = "growing" /\ result.op = "Clear") =>
       Len(GrowFreeList(growMem, grow.m_PoolHead))
         = Len(growGhost.out) * growGhost.numBlocks

----------------------------------------------------------------------------
(* Claims about the free-list allocator                                    *)

FlOneNodeCovers(lo, hi) ==
  LET nodes == FlFreeNodes(flMem, freelist.m_Freelist)
  IN \E i \in DOMAIN nodes : nodes[i] <= lo /\ hi <= NodeEnd(flMem, nodes[i])

\* No node of the free list ends where another begins.
FlNoAdjacentFreeNodes ==
  LET nodes == FlFreeNodes(flMem, freelist.m_Freelist)
  IN \A i, j \in DOMAIN nodes : NodeEnd(flMem, nodes[i]) # nodes[j]

\* C19: once two blocks that are neighbours in memory have been freed one
\* right after the other, in either order, one free node spans both and no
\* two free nodes are left touching.
C19_NeighboursCoalesce ==
  (kind = "freelist" /\ aborted = "none" /\ result.op = "Deallocate"
     /\ flGhost.pair.hi # nullptr) =>
    /\ FlOneNodeCovers(flGhost.pair.lo, flGhost.pair.hi)
    /\ FlNoAdjacentFreeNodes

\* Allocate returns Null exactly when no node of the free list held the
\* bytes the request needs, and otherwise a region inside the first node
\* that did.
FlServedByFirstFit ==
  (result.op = "Allocate" /\ aborted = "none") =>
    /\ result.ptr = nullptr <=> flGhost.fit.node = nullptr
    /\ result.ptr # nullptr =>
         /\ flGhost.fit.node + SizeofAllocationHeader <= result.ptr
         /\ result.ptr + result.num_bytes <= flGhost.fit.end

\* C20: Allocate is first-fit: the memory it returns is carved from the
\* first node in free-list order whose recorded size is at least the
\* internal size of the request, and it returns Null exactly when the free
\* list holds no such node.
C20_FirstFit ==
  kind \in FlKinds => FlServedByFirstFit

\* The same for requests of one byte or more, with blocks freed in between.
FlFirstFitOfSizedRequests ==
  kind = "freelist" => FlServedByFirstFit

----------------------------------------------------------------------------
(* Claims about the decorator                                              *)

\* C22: when a byte of the front or back guard zone of a region a caller
\* holds was changed after Allocate returned it, Deallocate of that region
\* fails the guard-byte assertion if bound checking is enabled (the inner
\* strategy is not called and the region stays held); if bound checking is
\* disabled the same stray write goes unnoticed: Deallocate completes and
\* hands the block back to the inner strategy.
C22_GuardCorruptionDetected ==
  (kind = "decorator" /\ result.op = "Deallocate" /\ decoGhost.freed.stray) =>
    IF deco.BoundCheck
    THEN /\ aborted = "Memory guard byte check failure."
         /\ decoGhost.call = NoInnerCall
         /\ decoGhost.freed \in decoLive
    ELSE /\ aborted = "none"
         /\ decoGhost.call.op = "Deallocate"
         /\ decoGhost.freed \notin decoLive

\* A Deallocate with bound checking enabled has tripped on a region whose
\* back guard zone holds a changed byte while its front guard zone is intact.
C22_Witness ==
  /\ kind = "decorator" /\ result.op = "Deallocate" /\ deco.BoundCheck
  /\ decoGhost.freed.stray
  /\ aborted = "Memory guard byte check failure."
  /\ \E at \in decoGhost.freed.guards :
       /\ at >= decoGhost.freed.ptr + decoGhost.freed.num_bytes
       /\ decoBytes[at] # GuardBytePattern
  /\ \A at \in decoGhost.freed.guards :
       at < decoGhost.freed.ptr => decoBytes[at] = GuardBytePattern

\* C23: the region Allocate returns lies inside the block the inner
\* strategy returned for the call and shares no address with the size header
\* or with either guard zone written into that block; and a Deallocate of a
\* region a caller holds, with the alignment it was requested with and the
\* size requested or returned, whose guard zones are intact, calls the inner
\* strategy's Deallocate with the pointer its Allocate returned, the
\* alignment its Allocate was called with, and a size that is at least the
\* widened size requested of it and at most the byte count it returned.
C23_UserRegionAndWidenedExtent ==
  kind = "decorator" =>
    /\ (result.op = "Allocate" /\ result.ptr # nullptr /\ aborted = "none") =>
         LET block  == decoGhost.call
             region == result.ptr .. (result.ptr + result.num_bytes - 1)
         IN /\ block.op = "Allocate"
            /\ region \subseteq block.ptr .. (block.ptr + block.num_bytes - 1)
            /\ \A a \in decoLive : a.ptr = result.ptr =>
                  /\ a.inner = block
                  /\ region \cap (a.header \cup a.guards) = {}
                  /\ deco.BoundCheck => a.header # {} /\ a.guards # {}
                  /\ \A at \in a.guards : decoBytes[at] = GuardBytePattern
    /\ (result.op = "Deallocate" /\ decoGhost.freed.ptr # nullptr
          /\ ~decoGhost.freed.stray) =>
         LET a    == decoGhost.freed
             call == decoGhost.call
         IN /\ aborted = "none"
            /\ call.op = "Deallocate"
            /\ call.ptr = a.inner.ptr
            /\ call.alignment = a.inner.alignment
            /\ a.inner.size <= call.size
            /\ call.size <= a.inner.num_bytes

\* A region of a bound-checked decorator over a pool, returned with more
\* bytes than requested, has been handed back with the size requested: the
\* pool's Deallocate was given less than the byte count its Allocate returned.
C23_Witness ==
  /\ kind = "decorator" /\ aborted = "none" /\ deco.BoundCheck
  /\ result.op = "Deallocate" /\ decoGhost.freed.ptr # nullptr
  /\ decoGhost.freed.num_bytes > decoGhost.freed.size
  /\ decoGhost.call.op = "Deallocate"
  /\ decoGhost.call.ptr = decoGhost.freed.inner.ptr
  /\ decoGhost.call.ptr < decoGhost.freed.ptr
  /\ decoGhost.call.size < decoGhost.freed.inner.num_bytes

\* The last call was an Allocate that ended, in the decorator and in the
\* second decorator with both policies disabled, with the same assertion
\* failure or none, the same address and the same byte count.
DecoSameAsTwin ==
  /\ aborted = decoGhost.twinFailed
  /\ result.ptr = decoGhost.twinResult.ptr
  /\ result.num_bytes = decoGhost.twinResult.num_bytes

\* C24: given the same inner strategy, buffer and calls, a decorator with
\* marking and bound checking enabled and one with both disabled return the
\* same result for every Allocate: both succeed or both fail, with the
\* same address and the same byte count.
C24_PoliciesKeepResults ==
  (kind = "decorator" /\ deco.Mark /\ deco.BoundCheck /\ result.op = "Allocate") =>
    DecoSameAsTwin

\* Marking alone leaves every result of Allocate as it is with both policies
\* disabled.
DecoMarkingKeepsResults ==
  (kind = "decorator" /\ ~deco.BoundCheck /\ result.op = "Allocate") =>
    DecoSameAsTwin

\* Thread t is inside the inner strategy or inside a tracking hook.
MtInside(t) == AtStep(t) \in {"Leave", "Tracked"}

\* At most one thread is inside the inner strategy or a tracking hook.
MtMutualExclusion == Cardinality({t \in Threads : MtInside(t)}) <= 1

\* The calls of Lock and Unlock pair up: a thread in a call has called Lock
\* once more than Unlock exactly while it holds the lock, and never more
\* than once; outside a call and at the return it does not hold the lock;
\* every completed call made as many calls of Unlock as of Lock, one of each
\* when it was given a region or a size to allocate.
MtLocksPairUp ==
  \A t \in Threads :
    LET my   == decoThreads.local[t]
        last == decoThreads.done[t]
    IN /\ my.locks - my.unlocks = (IF decoThreads.lock = t THEN 1 ELSE 0)
       /\ my.locks <= 1
       /\ AtStep(t) \in {"none", "Return"} => decoThreads.lock # t
       /\ last.locks = last.unlocks
       /\ (last.op = "Allocate" \/ last.a.ptr # nullptr) => last.locks = 1

----------------------------------------------------------------------------
(* Claims about the concurrent linear allocator                            *)

\* C26: whatever the interleaving of the threads' Allocate calls, the
\* regions the calls returned lie inside the buffer, start at a multiple of
\* the alignment requested, hold at least the bytes requested, and no two
\* of them share an address.
C26_ConcurrentRegionsDisjoint ==
  kind = "concurrent" =>
    /\ \A r \in clGhost.returned :
         /\ clinear.m_MemoryBgn <= r.ptr
         /\ r.ptr + r.num_bytes <= clinear.m_MemoryEnd
         /\ IsPointerAligned(r.ptr, r.alignment)
         /\ r.num_bytes >= r.size
    /\ \A r1, r2 \in clGhost.returned :
         r1 # r2 => ~Overlap(r1.ptr, r1.num_bytes, r2.ptr, r2.num_bytes)

\* Two threads each hold a region of one byte or more, one of them padded
\* to its alignment, while a thread whose request did not fit has yet to
\* store the end of the buffer into the cursor.
C26_Witness ==
  /\ kind = "concurrent"
  /\ \E r1, r2 \in clGhost.returned :
       /\ r1.thread # r2.thread
       /\ r1.num_bytes > 0 /\ r2.num_bytes > 0
       /\ r1.ptr + r1.num_bytes < r2.ptr
  /\ \E t \in ClThreads : clThreads[t].pc = "store"

----------------------------------------------------------------------------
(* Claims about MemoryRequirements and AlignSize                           *)

\* The bytes an Append asked for.
MrBytes(a) == a.element_size * a.element_count

\* The Appends that reserved bytes: the product fits MemoryIndex and is not 0.
MrReserved ==
  {i \in DOMAIN mrGhost :
     /\ ~WillMulOverflow(mrGhost[i].element_size, mrGhost[i].element_count)
     /\ MrBytes(mrGhost[i]) # 0}

\* No Append so far passed the largest MemoryIndex with its offset or its end.
MrNoWrap ==
  \A i \in MrReserved : mrGhost[i].offset + MrBytes(mrGhost[i]) <= memReqs.size

MrMaxAlignment(S) ==
  IF S = {} THEN 1
  ELSE CHOOSE a \in {mrGhost[i].element_alignment : i \in S} :
         \A i \in S : mrGhost[i].element_alignment <= a

\* C27: after any sequence of Appends on a fresh accumulator the offsets
\* returned never decrease, each is a multiple of its element_alignment, the
\* sub-regions [offset, offset + element_size * element_count) share no byte
\* and end at or before size, and alignment is the largest
\* element_alignment appended.
C27_AppendedRegionsFit ==
  kind = "requirements" =>
    /\ \A i, j \in DOMAIN mrGhost : i < j => mrGhost[i].offset <= mrGhost[j].offset
    /\ \A i \in DOMAIN mrGhost : mrGhost[i].offset % mrGhost[i].element_alignment = 0
    /\ \A i \in DOMAIN mrGhost : mrGhost[i].offset + MrBytes(mrGhost[i]) <= memReqs.size
    /\ \A i, j \in DOMAIN mrGhost :
         (i # j /\ MrBytes(mrGhost[i]) > 0 /\ MrBytes(mrGhost[j]) > 0)
           => ~Overlap(mrGhost[i].offset, MrBytes(mrGhost[i]),
                       mrGhost[j].offset, MrBytes(mrGhost[j]))
    /\ memReqs.alignment = MrMaxAlignment(DOMAIN mrGhost)

\* What does hold: as long as no sum wrapped, the Appends that reserved
\* bytes have aligned, non-decreasing offsets and disjoint sub-regions that
\* end at or before size, and alignment is the largest of their alignments.
MrReservedRegionsFit ==
  (kind = "requirements" /\ MrNoWrap) =>
    /\ \A i, j \in MrReserved : i < j => mrGhost[i].offset + MrBytes(mrGhost[i]) <= mrGhost[j].offset
    /\ \A i \in MrReserved : mrGhost[i].offset % mrGhost[i].element_alignment = 0
    /\ memReqs.alignment = MrMaxAlignment(MrReserved)

\* C28: for a power of two a and a size n, AlignSize(n, a) is a multiple of
\* a, is the smallest multiple of a that is n or more, and aligning it again
\* returns it unchanged.
C28_AlignSizeSmallestMultiple ==
  (kind = "alignsize" /\ sized.applied) =>
    /\ sized.aligned % sized.alignment = 0
    /\ sized.aligned >= sized.size
    /\ \A m \in sized.size..(sized.aligned - 1) : m % sized.alignment # 0
    /\ sized.again = sized.aligned

\* A size that is not a multiple of its alignment has been aligned to 8 or 16.
C28_Witness ==
  /\ kind = "alignsize" /\ sized.applied
  /\ sized.alignment >= 8
  /\ sized.size % sized.alignment # 0
  /\ sized.aligned > sized.size

----------------------------------------------------------------------------
(* Claims about contract violations                                        *)

\* C29: a Deallocate of a block that is free already (a second Deallocate
\* of it) fails an assertion; it is not accepted.
C29_DoubleFreeDetected ==
  (kind \in {"poolfree", "growfree"} /\ result.op = "DoubleFree") => aborted # "none"

----------------------------------------------------------------------------
(* Claims about the stack allocator's footprints                           *)

\* The header and the payload of a live allocation of the stack allocator.
StackFootprint(a) ==
  [bgn |-> a.ptr - SizeofStackAllocatorHeader, end |-> a.ptr + a.size]

\* C30: after a successful Allocate m_StackPtr is at or past the end of the
\* payload returned, and the footprints (header and payload) of the live
\* allocations lie inside the buffer and share no byte.
C30_StackPtrPastPayload ==
  (kind = "stack" /\ aborted = "none") =>
    /\ (result.op = "Allocate" /\ result.ptr # nullptr)
         => stack.m_StackPtr >= result.ptr + result.size
    /\ \A i \in DOMAIN stackLive :
         /\ stack.m_MemoryEnd - StackMemorySize <= StackFootprint(stackLive[i]).bgn
         /\ StackFootprint(stackLive[i]).end <= stack.m_MemoryEnd
    /\ \A i, j \in DOMAIN stackLive :
         i < j => StackFootprint(stackLive[i]).end <= StackFootprint(stackLive[j]).bgn

----------------------------------------------------------------------------
(* Claims about the free-list allocator's blocks and nodes                 *)

\* The header address and the footprint (header and recorded size) of a
\* block the caller holds.
FlNodeOf(a) == a.ptr - a.offset - SizeofAllocationHeader
FlFootprintOf(a) == SizeofAllocationHeader + a.offset + a.num_bytes

\* C31: every block Allocate hands out has a footprint that holds a whole
\* free-list node (size and next link), so that freeing a block writes no
\* byte outside it: the header of every block still held keeps the size
\* Allocate recorded.
C31_BlockHoldsFreeListNode ==
  kind = "freelist" =>
    \A a \in flLive :
      /\ FlFootprintOf(a) >= SizeofFreeListNode
      /\ FlNodeOf(a) \in DOMAIN flMem
      /\ flMem[FlNodeOf(a)].size = a.offset + a.num_bytes

\* The bytes of the footprints of the blocks held.
RECURSIVE FlLiveFootprints(_)
FlLiveFootprints(live) ==
  IF live = {} THEN 0
  ELSE LET a == CHOOSE b \in live : TRUE
       IN FlFootprintOf(a) + FlLiveFootprints(live \ {a})

\* C32: the footprints (header and recorded size) of the free nodes and of
\* the blocks held add up to the size of the buffer; a split leaves a block
\* and a remainder that cover the bytes of the node split.
C32_FootprintsAddUp ==
  (kind = "freelist" /\ aborted = "none") =>
    FlFootprints(flMem, FlFreeNodes(flMem, freelist.m_Freelist))
      + FlLiveFootprints(flLive) = flGhost.end - flGhost.bgn

\* The free list followed from node for at most fuel links: the nodes
\* passed, then the link at which the walk stopped (nullptr at the end of a
\* list).
RECURSIVE FlWalk(_, _, _)
FlWalk(mem, node, fuel) ==
  IF node = nullptr \/ fuel = 0 \/ node \notin DOMAIN mem THEN <<node>>
  ELSE <<node>> \o FlWalk(mem, mem[node].next, fuel - 1)

\* The free list ends, its nodes ascend strictly by address and share no
\* byte with one another or with a block held.
FlListWellFormed ==
  LET walk  == FlWalk(flMem, freelist.m_Freelist, Cardinality(DOMAIN flMem))
      nodes == SubSeq(walk, 1, Len(walk) - 1)
  IN /\ walk[Len(walk)] = nullptr
     /\ \A i, j \in DOMAIN nodes : i < j => nodes[i] < nodes[j]
     /\ \A i, j \in DOMAIN nodes : i < j => NodeEnd(flMem, nodes[i]) <= nodes[j]
     /\ \A i \in DOMAIN nodes : \A a \in flLive :
          ~Overlap(nodes[i], SizeofAllocationHeader + flMem[nodes[i]].size,
                   FlNodeOf(a), FlFootprintOf(a))

FlListWellFormedUnlessAborted ==
  (kind = "freelist" /\ aborted = "none") => FlListWellFormed

\* C33: after any sequence of Allocate calls and of Deallocate calls for
\* blocks held, the free list is acyclic and strictly ascending by address,
\* its nodes share no byte with one another or with a block held; no call
\* has to take a node's extent from a header that was overwritten.
C33_FreeListWellFormed ==
  kind = "freelist" =>
    /\ aborted # CorruptedHeader
    /\ aborted = "none" => FlListWellFormed

----------------------------------------------------------------------------
(* Claims about the pools' slots and free lists                            *)

\* The Allocate just made was the k-th successful one (k = 0, 1, ...) since
\* construction or Reset, nothing but Allocate having been called since.
PoolIssued(k) ==
  /\ kind = "poolindex" /\ aborted = "none"
  /\ result.op = "Allocate" /\ result.ptr # nullptr
  /\ poolGhost.streak = k + 1

PoolSlotAgrees(k) ==
  /\ PoolFromIndex(pool, k).failed = "none"
  /\ PoolFromIndex(pool, k).ptr = result.ptr
  /\ PoolIndexOf(pool, result.ptr).failed = "none"
  /\ PoolIndexOf(pool, result.ptr).index = k

\* C34: after construction or Reset the k-th successful Allocate returns
\* the address FromIndex(k), and IndexOf of that address is k.
C34_IndexAgreesWithAllocate ==
  \A k \in 0 .. PoolMemorySize : PoolIssued(k) => PoolSlotAgrees(k)

\* What does hold: the same, for a pool whose buffer starts at a multiple
\* of the alignment and whose block size is a multiple of it.
PoolIndexAgreesWhenAligned ==
  \A k \in 0 .. PoolMemorySize :
    (PoolIssued(k) /\ IsPointerAligned(pool.m_MemoryBgn, pool.m_Alignment)
                   /\ pool.m_BlockSize % pool.m_Alignment = 0) => PoolSlotAgrees(k)

\* A list of blocks followed from node for at most fuel links: the blocks
\* passed, then the link at which the walk stopped (nullptr at the end of a
\* list).  mem holds the next field of each block.
RECURSIVE PoolWalk(_, _, _)
PoolWalk(mem, node, fuel) ==
  IF node = nullptr \/ fuel = 0 \/ node \notin DOMAIN mem THEN <<node>>
  ELSE <<node>> \o PoolWalk(mem, mem[node], fuel - 1)

\* The slots SetupPool lays out in the pool's buffer.
PoolSlots ==
  DOMAIN SetupPool(pool.m_MemoryBgn, pool.m_MemoryEnd - pool.m_MemoryBgn,
                   pool.m_BlockSize, pool.m_Alignment).next

\* The slots SetupPool lays out in the chunks from chunk on.
RECURSIVE GrowSlots(_)
GrowSlots(chunk) ==
  IF chunk = nullptr THEN {}
  ELSE DOMAIN SetupPool(chunk - grow.m_ChunkMemSize, grow.m_ChunkMemSize,
                        grow.m_BlockSize, grow.m_Alignment).next
         \cup GrowSlots(growMem[chunk])

\* The free list from head in mem ends, holds each block once, holds slots
\* only and none that is held, and with the blocks held it accounts for
\* every slot.
FreeListAccountsFor(mem, head, slots, held) ==
  LET walk == PoolWalk(mem, head, Cardinality(slots) + 1)
      free == SubSeq(walk, 1, Len(walk) - 1)
  IN /\ walk[Len(walk)] = nullptr
     /\ \A i, j \in DOMAIN free : i < j => free[i] # free[j]
     /\ \A i \in DOMAIN free : free[i] \in slots /\ free[i] \notin held
     /\ Len(free) + Cardinality(held) = Cardinality(slots)

\* C35: with Deallocate called only for blocks held, the free list of the
\* pool and of the growing pool is acyclic, holds distinct slot addresses
\* inside the backing memory and no block that is held, free and held
\* blocks together are all the blocks, and Allocate returns no address
\* that is held.
C35_PoolFreeListAccounts ==
  /\ (kind = "pool" /\ aborted = "none") =>
       /\ FreeListAccountsFor(poolMem, pool.m_PoolHead, PoolSlots,
                              {a.ptr : a \in poolLive})
       /\ \A s \in PoolSlots : pool.m_MemoryBgn <= s /\ s + pool.m_BlockSize <= pool.m_MemoryEnd
       /\ ~poolGhost.dup
  /\ (kind = "growing" /\ aborted = "none") =>
       /\ FreeListAccountsFor(growMem, grow.m_PoolHead, GrowSlots(grow.m_Chunks),
                              {a.ptr : a \in growLive})
       /\ ~growGhost.dup

\* Blocks were handed out, one was freed and is at the head of the free
\* list in front of a block never handed out, another is still held: in
\* the pool, and in a growing pool with two chunks.
C35_Witness ==
  \/ /\ kind = "pool" /\ aborted = "none" /\ result.op = "Deallocate"
     /\ poolLive # {} /\ pool.m_PoolHead = result.ptr
     /\ poolMem[pool.m_PoolHead] # nullptr
  \/ /\ kind = "growing" /\ aborted = "none" /\ result.op = "Deallocate"
     /\ growLive # {} /\ grow.m_PoolHead = result.ptr
     /\ grow.m_Chunks # nullptr /\ growMem[grow.m_Chunks] # nullptr

----------------------------------------------------------------------------
(* Claims about the linear allocator's cursor                              *)

LinCurrentInBuffer ==
  linear.m_MemoryBgn <= linear.m_Current /\ linear.m_Current <= linear.m_MemoryEnd

LinLiveBelowCurrent ==
  \A r \in linGhost.live : RegionEnd(r) <= linear.m_Current

CanServiceAgrees(size, alignment) ==
  LinearCanServiceAllocation(linear, size, alignment)
    <=> IsAllocation(LinearAllocate(linear, size, alignment).result)

\* C37: in every state of the linear allocator, for every size (0 included)
\* and every valid alignment, CanServiceAllocation(size, alignment) is true
\* exactly when Allocate(size, alignment) called next returns a result
\* that is not Null.
C37_CanServiceMatchesAllocate ==
  (kind = "linear" /\ aborted = "none") =>
    \A size \in LinearSizes, alignment \in Alignments :
      CanServiceAgrees(size, alignment)

\* The same for requests of one byte or more.
CanServiceMatchesSizedAllocate ==
  (kind = "linear" /\ aborted = "none") =>
    \A size \in LinearSizes \ {0}, alignment \in Alignments :
      CanServiceAgrees(size, alignment)

----------------------------------------------------------------------------
(* Claims about the decorator's size header and lock                       *)

\* C38: with bound checking enabled, a Deallocate whose size argument is
\* larger than the user size recorded in the size header trips an
\* assertion; it is not forwarded to the inner strategy.
C38_OversizedDeallocateAsserts ==
  (kind = "decosize" /\ deco.BoundCheck /\ result.op = "DeallocateOversized") =>
    /\ aborted # "none"
    /\ decoGhost.call = NoInnerCall

\* Without a stray write, an overstated size passes the decorator's checks.
DecoOversizedPassesChecks ==
  (kind = "decosize" /\ deco.BoundCheck /\ result.op = "DeallocateOversized"
     /\ ~decoGhost.freed.stray) =>
    /\ aborted # "Memory guard byte check failure."
    /\ decoGhost.call.op = "Deallocate"
    /\ decoGhost.call.size > decoGhost.freed.inner.size

\* The steps of a call that C39 places between Lock and Unlock.
DecoLockedSteps == {"Enter", "Leave", "Track", "Tracked", "Fill", "Verify"}

StepsUnderLock ==
  \A t \in Threads : AtStep(t) \in DecoLockedSteps => decoThreads.lock = t

\* C39: a thread that is about to call the inner strategy or the tracking
\* hook, to write the size header, the guard zones and the allocated marks,
\* or to verify the guard zones and write the freed marks, or that is inside
\* the inner strategy or the hook, holds the lock.
C39_StepsUnderLock == kind = "decomt" => StepsUnderLock

\* The same for MemoryManager alone.
ManagerStepsUnderLock ==
  (kind = "decomt" /\ deco.which = "MemoryManager") => StepsUnderLock

\* In Allocator the calls of the inner strategy and of the hook are made
\* with the lock held.
AllocatorCallsUnderLock ==
  (kind = "decomt" /\ deco.which = "Allocator") =>
    \A t \in Threads :
      AtStep(t) \in {"Enter", "Leave", "Track", "Tracked"} => decoThreads.lock = t

----------------------------------------------------------------------------
(* Claims about MemoryRequirements' queries                                *)

BufferIsValid(buffer, buffer_size) ==
  (buffer % memReqs.alignment) = 0 /\ buffer_size >= memReqs.size

\* C40: after any sequence of Append calls, IsBufferValid(buffer,
\* buffer_size) is true exactly when buffer is a multiple of the
\* accumulated alignment and buffer_size is at least the accumulated size.
C40_IsBufferValidChecksBoth ==
  (kind = "requirements" /\ aborted = "none") =>
    \A buffer \in MrBuffers, buffer_size \in MrBufferSizes :
      IsBufferValid(memReqs, buffer, buffer_size) <=> BufferIsValid(buffer, buffer_size)

\* IsBufferValid(buffer) alone is true exactly for the aligned buffers, and
\* the overload with a size accepts the buffers of the accumulated size.
IsBufferValidChecksAlignment ==
  (kind = "requirements" /\ aborted = "none") =>
    \A buffer \in MrBuffers :
      /\ IsBufferAligned(memReqs, buffer) <=> (buffer % memReqs.alignment) = 0
      /\ IsBufferValid(memReqs, buffer, memReqs.size)
           <=> (buffer % memReqs.alignment) = 0

KindOK ==
  kind \in {"linear", "scope", "linlive", "stack", "pool", "poolindex", "poolfree", "growing",
            "growfree", "freelist",
            "flfill", "decorator", "decosize", "decomt", "concurrent", "requirements",
            "alignsize"}

Init == LinInit \/ StackInit \/ PoolInit \/ GrowInit \/ FlInit
Next == LinNext \/ StackNext \/ PoolNext \/ GrowNext \/ FlNext
Spec == Init /\ [][Next]_vars
====
